---- MODULE Spec2Model ----
(***************************************************************************)
(* A model of the pi-extensions repository: the credential-store key       *)
(* reorganizer (usage.ts, claude-select.ts, codex-select.ts), the account  *)
(* recommendation scorer of the two select commands, the usage panel with  *)
(* its per-provider usage fetchers (usage.ts), the Codex usage widget,     *)
(* the two copies of formatReset, the loader of the credential store with  *)
(* its migration of codex keys, the cost panel (cost.ts), the device       *)
(* authorization login of the Kilo provider and the statistics hook        *)
(* (tps.ts).                                                               *)
(*                                                                         *)
(* Keys of the credential store are strings.  A key is modelled as a       *)
(* sequence of tokens: a provider name is one token ("anthropic",          *)
(* "openai-codex", "zai"), and "-", a decimal digit or a letter is one     *)
(* token each, so "anthropic-1" is <<"anthropic", "-", "1">> and           *)
(* "anthropicx" is <<"anthropic", "x">>.  String.startsWith is then the    *)
(* prefix relation on sequences and a template literal is concatenation.   *)
(*                                                                         *)
(* A JavaScript object with string keys enumerates its keys in insertion   *)
(* order, so a store is a sequence of [k, v] pairs with distinct keys.     *)
(***************************************************************************)
EXTENDS Integers, Sequences, FiniteSets, TLC

VARIABLES
    mode,        \* which part of the repository this behaviour exercises
    \* the key reorganizer and getSelectedAuthKey
    auth,        \* the credential store passed in
    prefix,      \* the provider prefix of the store's accounts
    selKey,      \* the selectedKey argument
    opName,      \* the function that has been applied
    result,      \* the store returned by reorganizeKeys
    selectedOut, \* the key returned by getSelectedAuthKey
    \* the urgency score
    now,         \* Date.now(), in milliseconds
    usageA,      \* the usage data of one account
    usageB,      \* the usage data of a second account
    scoreA,      \* getUrgencyScore of the first account
    scoreB,      \* getUrgencyScore of the second account
    \* the claude-select and codex-select commands
    authFile,    \* the content of ~/.pi/agent/auth.json
    cmd,         \* the command that runs: "claude" or "codex"
    hPc,         \* where its handler stands
    hAuth,       \* the handler's auth, as loaded (entries are shared objects)
    pending,     \* the keys whose usage and profile fetches are in flight
    quotaMap,    \* quotaMap / usageMap, in insertion order
    profileMap,  \* profileMap, in insertion order
    bestKey,     \* the key with the lowest urgency, NoKey for null
    items,       \* the list handed to ctx.ui.select
    notice,      \* the last ctx.ui.notify
    \* the usage panel
    envCreds,    \* the providers with a credential outside auth.json
    net,         \* how the network answers the calls made for each key
    settled,     \* what the three usage fetchers settled with
    usages,      \* UsageComponent.usages
    loading,     \* UsageComponent.loading
    cursor,      \* UsageComponent.cursor
    selectableIndices, \* UsageComponent.selectableIndices (0-based)
    switching,   \* UsageComponent.switching
    closed,      \* onClose has been called
    \* what runs beside the commands
    loginWritten, \* a login flow of another process has saved its entry
    wPc,         \* where updateUsageWidget stands
    wAuth,       \* its codexAuth, the entry it loaded
    \* formatReset
    resetAt,     \* the reset instant, epoch seconds
    fUsage,      \* what formatReset of usage.ts made of it
    fCodex,      \* what formatReset of codex-select.ts made of it
    \* loadAuth of codex-select.ts called again and again
    lLoads,      \* the calls of loadAuth so far
    lSaves,      \* the calls among them that saved a migrated store
    lReturned,   \* what the last call returned
    \* the cost panel
    sessions,    \* the .jsonl files under ~/.pi/agent/sessions, each a list of lines
    original,    \* the files as they were when the panel opened
    costs,       \* CostComponent.costs
    costLoading, \* CostComponent.loading
    costCursor,  \* CostComponent.cursor
    currentTab,  \* CostComponent.currentTab
    expanded,    \* CostComponent.expanded
    scans,       \* the days of the load() calls whose scan has not resolved
    deletes,     \* the deleteProviderFromSessions calls that have not returned
    deleted,     \* the providers backspace was pressed on
    costClosed,  \* onClose has been called
    \* loginKilocode
    kPc,         \* where the login stands
    kNow,        \* Date.now(), in milliseconds
    kDeadline,   \* deadline
    kAborted,    \* callbacks.signal.aborted
    kEnd,        \* how the login ended: "credentials" or the error's message
    \* the statistics hook of tps.ts (and of the hook at the end of usage.ts)
    agentStartMs,    \* agentStartMs, NoStart for null
    sNow,            \* Date.now(), in milliseconds
    startedSinceEnd, \* an agent_start has come since the last agent_end
    notified,        \* the notifications since the last agent_start
    notifications,   \* all notifications so far
    \* the usage panel beside other writers of the file
    shownFrom    \* the store the panel's rows were fetched from

reorgVars == <<auth, prefix, selKey, opName, result, selectedOut>>

urgVars == <<now, usageA, usageB, scoreA, scoreB>>

selVars == <<authFile, cmd, hPc, hAuth, pending, quotaMap, profileMap, bestKey, items, notice>>

handlerVars == <<cmd, hPc, hAuth, pending, quotaMap, profileMap, bestKey, items, notice>>

panelVars == <<envCreds, net, settled, usages, loading, cursor, selectableIndices, switching, closed>>

otherVars == <<loginWritten, wPc, wAuth>>

fmtVars == <<resetAt, fUsage, fCodex>>

loaderVars == <<lLoads, lSaves, lReturned>>

\* the variables of the later sections but shownFrom
costVars == <<sessions, original, costs, costLoading, costCursor, currentTab, expanded, scans, deletes,
              deleted, costClosed>>

kiloVars == <<kPc, kNow, kDeadline, kAborted, kEnd>>

statVars == <<agentStartMs, sNow, startedSinceEnd, notified, notifications>>

laterVars == <<loaderVars, costVars, kiloVars, statVars>>

lateVars == <<laterVars, shownFrom>>

vars == <<mode, reorgVars, urgVars, selVars, panelVars, otherVars, fmtVars, lateVars>>

\* The variables of a part that a behaviour does not exercise.
IdleReorg ==
    /\ auth = <<>> /\ prefix = <<>> /\ selKey = <<>> /\ opName = "none"
    /\ result = <<>> /\ selectedOut = <<>>

IdleUrg ==
    /\ now = 0 /\ usageA = <<>> /\ usageB = <<>> /\ scoreA = <<>> /\ scoreB = <<>>

IdleSel ==
    /\ authFile = <<>> /\ cmd = "none" /\ hPc = "idle" /\ hAuth = <<>> /\ pending = {}
    /\ quotaMap = <<>> /\ profileMap = <<>> /\ bestKey = <<>> /\ items = <<>>
    /\ notice = "none"

IdleOther == loginWritten = FALSE /\ wPc = "idle" /\ wAuth = <<>>

IdleLoader == lLoads = 0 /\ lSaves = 0 /\ lReturned = <<>>

IdleCost ==
    /\ sessions = <<>> /\ original = <<>> /\ costs = <<>> /\ costLoading = FALSE /\ costCursor = 0
    /\ currentTab = 0 /\ expanded = "" /\ scans = <<>> /\ deletes = <<>> /\ deleted = <<>>
    /\ costClosed = FALSE

IdleKilo == kPc = "idle" /\ kNow = 0 /\ kDeadline = 0 /\ kAborted = FALSE /\ kEnd = ""

IdleStat ==
    /\ agentStartMs = 0 /\ sNow = 0 /\ startedSinceEnd = FALSE /\ notified = 0 /\ notifications = 0

IdleLate == IdleLoader /\ IdleCost /\ IdleKilo /\ IdleStat /\ shownFrom = <<>>

IdleFmt == resetAt = 0 /\ fUsage = <<>> /\ fCodex = <<>>

IdlePanel ==
    /\ envCreds = {} /\ net = <<>> /\ settled = <<>> /\ usages = <<>> /\ loading = FALSE
    /\ cursor = 0 /\ selectableIndices = <<>> /\ switching = FALSE /\ closed = FALSE

(***************************************************************************)
(* Bounds of the model.                                                    *)
(***************************************************************************)
MaxKeys == 3

(***************************************************************************)
(* Strings as token sequences.                                             *)
(***************************************************************************)
Anthropic == <<"anthropic">>

OpenaiCodex == <<"openai-codex">>

Zai == <<"zai">>

Dash == <<"-">>

\* The undefined key (getSelectedAuthKey's "no key").
NoKey == <<>>

DigitTok == [d \in 0..9 |-> CASE d = 0 -> "0" [] d = 1 -> "1" [] d = 2 -> "2"
                              [] d = 3 -> "3" [] d = 4 -> "4" [] d = 5 -> "5"
                              [] d = 6 -> "6" [] d = 7 -> "7" [] d = 8 -> "8"
                              [] OTHER -> "9"]

DigitToks == {DigitTok[d] : d \in 0..9}

RECURSIVE NumStr(_)
\* Number-to-string conversion of a template literal, `${counter}`.
NumStr(n) == IF n < 10 THEN <<DigitTok[n]>>
             ELSE NumStr(n \div 10) \o <<DigitTok[n % 10]>>

\* String.prototype.startsWith
StartsWith(s, p) == Len(p) <= Len(s) /\ SubSeq(s, 1, Len(p)) = p

\* `${prefix}-${counter}`
NumberedKey(p, n) == p \o Dash \o NumStr(n)

\* A key of the form P-<n>, n a positive integer in decimal.
IsNumberedKey(k, p) ==
    /\ StartsWith(k, p \o Dash)
    /\ Len(k) > Len(p) + 1
    /\ \A i \in (Len(p) + 2)..Len(k) : k[i] \in DigitToks
    /\ k[Len(p) + 2] # "0"

(***************************************************************************)
(* Credential entries and JavaScript objects.                              *)
(***************************************************************************)
\* The value of a missing property.
Undefined == [type |-> "undefined", access |-> "", key |-> "", email |-> "", id |-> 0]

\* A value is truthy unless it is undefined (entries are objects).
Truthy(v) == v.type # "undefined"

\* A file that cannot be read or is not JSON: JSON.parse(readFileSync(...))
\* throws on it.
Corrupt == <<[k |-> <<"not json">>, v |-> Undefined]>>

ObjKeys(o) == [i \in 1..Len(o) |-> o[i].k]

KeySet(o) == {o[i].k : i \in 1..Len(o)}

ObjHas(o, k) == k \in KeySet(o)

ObjGet(o, k) == IF ObjHas(o, k)
                THEN o[CHOOSE i \in 1..Len(o) : o[i].k = k].v
                ELSE Undefined

\* delete o[k]
ObjDelete(o, k) == SelectSeq(o, LAMBDA e : e.k # k)

\* o[k] = v : an existing key keeps its place, a new key goes last.
ObjSet(o, k, v) ==
    IF ObjHas(o, k)
    THEN [i \in 1..Len(o) |-> IF o[i].k = k THEN [k |-> k, v |-> v] ELSE o[i]]
    ELSE Append(o, [k |-> k, v |-> v])

RECURSIVE DeleteAll(_, _)
\* for (const key of keys) delete o[key]
DeleteAll(o, keys) == IF keys = <<>> THEN o
                      ELSE DeleteAll(ObjDelete(o, Head(keys)), Tail(keys))

(***************************************************************************)
(* Key matching and selection (usage.ts).                                  *)
(***************************************************************************)
\* key === providerPrefix || key.startsWith(providerPrefix + "-")
MatchesPrefix(k, p) == k = p \/ StartsWith(k, p \o Dash)

\* Object.keys(authData).filter(...)
getAuthEntriesForProvider(authData, providerPrefix) ==
    SelectSeq(ObjKeys(authData), LAMBDA k : MatchesPrefix(k, providerPrefix))

\* entry?.access || entry?.key
HasCredential(entry) == entry.access # "" \/ entry.key # ""

getSelectedAuthKey(authData, providerPrefix) ==
    LET entry == ObjGet(authData, providerPrefix)
        keys  == getAuthEntriesForProvider(authData, providerPrefix)
    IN  IF HasCredential(entry) THEN providerPrefix
        ELSE IF Len(keys) > 0 THEN keys[1] ELSE NoKey

(***************************************************************************)
(* reorganizeKeys, usage.ts.                                               *)
(***************************************************************************)
RECURSIVE RenumberUsageLastFirst(_, _, _, _, _)
\* A numbering that would go through the entries from the last to the first.
RenumberUsageLastFirst(res, rest, selectedKey, p, counter) ==
    IF rest = <<>> THEN res
    ELSE LET e == rest[Len(rest)]
             before == SubSeq(rest, 1, Len(rest) - 1)
         IN  IF MatchesPrefix(e.k, p) /\ e.k # selectedKey
             THEN RenumberUsageLastFirst(ObjSet(res, NumberedKey(p, counter), e.v),
                                         before, selectedKey, p, counter + 1)
             ELSE RenumberUsageLastFirst(res, before, selectedKey, p, counter)

RECURSIVE RenumberUsage(_, _, _, _, _)
\* The loop over Object.entries(auth): every provider entry but the selected
\* one goes under `${prefix}-${counter}`.
RenumberUsage(res, rest, selectedKey, p, counter) ==
    IF rest = <<>> THEN res
    ELSE LET e == Head(rest)
         IN  IF MatchesPrefix(e.k, p) /\ e.k # selectedKey
             THEN RenumberUsage(ObjSet(res, NumberedKey(p, counter), e.v),
                                Tail(rest), selectedKey, p, counter + 1)
             ELSE RenumberUsage(res, Tail(rest), selectedKey, p, counter)

\* A reorganizeKeys that forgets to delete the provider's old keys.
reorganizeKeysNoDelete(a, selectedKey, p) ==
    LET selectedAuth == ObjGet(a, selectedKey)
        withSelected == IF Truthy(selectedAuth) THEN ObjSet(a, p, selectedAuth) ELSE a
    IN  RenumberUsage(withSelected, a, selectedKey, p, 1)

reorganizeKeys(a, selectedKey, p) ==
    LET providerKeys == SelectSeq(ObjKeys(a), LAMBDA k : MatchesPrefix(k, p))
        cleared      == DeleteAll(a, providerKeys)
        selectedAuth == ObjGet(a, selectedKey)
        withSelected == IF Truthy(selectedAuth) THEN ObjSet(cleared, p, selectedAuth)
                        ELSE cleared
    IN  RenumberUsage(withSelected, a, selectedKey, p, 1)

(***************************************************************************)
(* reorganizeKeys, claude-select.ts and codex-select.ts.  The two copies   *)
(* differ in the provider name only.                                       *)
(***************************************************************************)
\* getAnthropicEntries / getCodexEntries: key.startsWith(<provider>)
EntriesStartingWith(a, p) == SelectSeq(a, LAMBDA e : StartsWith(e.k, p))

getAnthropicEntries(a) == EntriesStartingWith(a, Anthropic)

getCodexEntries(a) == EntriesStartingWith(a, OpenaiCodex)

RECURSIVE SkipUsed(_, _)
\* while (usedNumbers.has(counter)) counter++
SkipUsed(counter, usedNumbers) ==
    IF counter \in usedNumbers THEN SkipUsed(counter + 1, usedNumbers) ELSE counter

RECURSIVE RenumberSelect(_, _, _, _, _, _)
RenumberSelect(res, rest, selectedKey, p, counter, usedNumbers) ==
    IF rest = <<>> THEN res
    ELSE LET e == Head(rest)
             c == SkipUsed(counter, usedNumbers)
         IN  IF e.k # selectedKey
             THEN RenumberSelect(ObjSet(res, NumberedKey(p, c), e.v), Tail(rest),
                                 selectedKey, p, c + 1, usedNumbers \cup {c})
             ELSE RenumberSelect(res, Tail(rest), selectedKey, p, counter, usedNumbers)

\* A reorganizeKeys that stores the selected entry after the numbered ones.
ReorganizeSelectSelectedLast(a, selectedKey, p, entries) ==
    LET providerKeys == SelectSeq(ObjKeys(a), LAMBDA k : StartsWith(k, p))
        cleared      == DeleteAll(a, providerKeys)
        selectedAuth == ObjGet(entries, selectedKey)
        numbered     == RenumberSelect(cleared, entries, selectedKey, p, 1, {})
    IN  IF Truthy(selectedAuth) THEN ObjSet(numbered, p, selectedAuth) ELSE numbered

ReorganizeSelect(a, selectedKey, p, entries) ==
    LET providerKeys == SelectSeq(ObjKeys(a), LAMBDA k : StartsWith(k, p))
        cleared      == DeleteAll(a, providerKeys)
        selectedAuth == ObjGet(entries, selectedKey)
        withSelected == IF Truthy(selectedAuth) THEN ObjSet(cleared, p, selectedAuth)
                        ELSE cleared
    IN  RenumberSelect(withSelected, entries, selectedKey, p, 1, {})

reorganizeKeysClaude(a, selectedKey) ==
    ReorganizeSelect(a, selectedKey, Anthropic, getAnthropicEntries(a))

reorganizeKeysCodex(a, selectedKey) ==
    ReorganizeSelect(a, selectedKey, OpenaiCodex, getCodexEntries(a))

(***************************************************************************)
(* The stores the reorganizer is applied to: up to MaxKeys entries under   *)
(* distinct keys, in every enumeration order.  For a provider P the keys   *)
(* are P, P-1, P-2, P-w (a suffix that is no number), Px (another name     *)
(* that starts with P) and the key of another provider.  The i-th entry    *)
(* carries the identity i, so that entries can be told apart.              *)
(***************************************************************************)
Providers == {Anthropic, OpenaiCodex}

OtherKey(p) == IF p = Zai THEN Anthropic ELSE Zai

KeyUniverse(p) == {p, NumberedKey(p, 1), NumberedKey(p, 2), p \o Dash \o <<"w">>,
                   p \o <<"x">>, OtherKey(p)}

EntryKinds == {"access", "key", "none"}

MkEntry(kind, i) ==
    [type   |-> IF kind = "key" THEN "api_key" ELSE "oauth",
     access |-> IF kind = "access" THEN "token" ELSE "",
     key    |-> IF kind = "key" THEN "apikey" ELSE "",
     email  |-> "",
     id     |-> i]

RECURSIVE StoresOfLen(_, _)
StoresOfLen(p, n) ==
    IF n = 0 THEN {<<>>}
    ELSE {Append(s, [k |-> k, v |-> MkEntry(kind, n)]) :
            s \in StoresOfLen(p, n - 1), k \in KeyUniverse(p), kind \in EntryKinds}

DistinctKeys(s) == Cardinality(KeySet(s)) = Len(s)

StoresFor(p) == UNION {{s \in StoresOfLen(p, n) : DistinctKeys(s)} : n \in 0..MaxKeys}

(***************************************************************************)
(* The reorganizer applied once to a store.                                *)
(***************************************************************************)
InitReorg ==
    /\ mode = "reorg"
    /\ prefix \in Providers
    /\ auth \in StoresFor(prefix)
    /\ selKey = NoKey
    /\ opName = "none"
    /\ result = <<>>
    /\ selectedOut = NoKey
    /\ IdleUrg
    /\ IdleSel
    /\ IdlePanel
    /\ IdleOther
    /\ IdleFmt
    /\ IdleLate

\* UsageComponent.switchAccount: reorganizeKeys(auth, usage.authKey, prefix)
ReorganizeUsage ==
    /\ mode = "reorg" /\ opName = "none"
    /\ \E sk \in KeySet(auth) :
         /\ selKey' = sk
         /\ result' = reorganizeKeys(auth, sk, prefix)
    /\ opName' = "usage"
    /\ UNCHANGED <<mode, auth, prefix, selectedOut, urgVars, selVars, panelVars, otherVars, fmtVars, lateVars>>

\* claude-select: reorganizeKeys(auth, selectedKey)
ReorganizeClaude ==
    /\ mode = "reorg" /\ opName = "none" /\ prefix = Anthropic
    /\ \E sk \in KeySet(auth) :
         /\ selKey' = sk
         /\ result' = reorganizeKeysClaude(auth, sk)
    /\ opName' = "claude"
    /\ UNCHANGED <<mode, auth, prefix, selectedOut, urgVars, selVars, panelVars, otherVars, fmtVars, lateVars>>

\* codex-select: reorganizeKeys(auth, selectedKey)
ReorganizeCodex ==
    /\ mode = "reorg" /\ opName = "none" /\ prefix = OpenaiCodex
    /\ \E sk \in KeySet(auth) :
         /\ selKey' = sk
         /\ result' = reorganizeKeysCodex(auth, sk)
    /\ opName' = "codex"
    /\ UNCHANGED <<mode, auth, prefix, selectedOut, urgVars, selVars, panelVars, otherVars, fmtVars, lateVars>>

\* fetchClaudeUsage / fetchCodexUsage / fetchZaiUsage: getSelectedAuthKey(authData, P)
SelectedAuthKey ==
    /\ mode = "reorg" /\ opName = "none"
    /\ selectedOut' = getSelectedAuthKey(auth, prefix)
    /\ opName' = "getSelected"
    /\ UNCHANGED <<mode, auth, prefix, selKey, result, urgVars, selVars, panelVars, otherVars, fmtVars, lateVars>>

NextReorg == ReorganizeUsage \/ ReorganizeClaude \/ ReorganizeCodex \/ SelectedAuthKey

SpecReorg == InitReorg /\ [][NextReorg]_vars

(***************************************************************************)
(* Claims about the reorganizer.                                           *)
(***************************************************************************)
ReorgDone == mode = "reorg" /\ opName \in {"usage", "claude", "codex"}

\* The provider name the applied implementation works on.
ImplPrefix == IF opName = "claude" THEN Anthropic
              ELSE IF opName = "codex" THEN OpenaiCodex ELSE prefix

\* The keys the applied implementation takes for the provider's entries.
ImplMatches(k) == IF opName = "usage" THEN MatchesPrefix(k, ImplPrefix)
                  ELSE StartsWith(k, ImplPrefix)

\* The values a store holds under the keys of a set, as a multiset.
ValuesUnder(o, keys) ==
    LET idx == {i \in 1..Len(o) : o[i].k \in keys}
        vs  == {o[i].v : i \in idx}
    IN  [v \in vs |-> Cardinality({i \in idx : o[i].v = v})]

OtherProviderKeys == {k \in KeySet(auth) : ImplMatches(k) /\ k # selKey}

\* C1: after reorganize with a selectedKey that is one of the provider's keys,
\* the bare key P holds the entry formerly at selectedKey and the n other
\* provider entries sit exactly under P-1 .. P-n (no gap, no duplicate suffix),
\* for every enumeration order of the input store.
ReorgCanonicalContiguous ==
    (ReorgDone /\ ImplMatches(selKey)) =>
        LET P == ImplPrefix
            n == Cardinality(OtherProviderKeys)
            numbered == {NumberedKey(P, i) : i \in 1..n}
        IN  /\ ObjHas(result, P)
            /\ ObjGet(result, P) = ObjGet(auth, selKey)
            /\ {k \in KeySet(result) : ImplMatches(k)} = {P} \cup numbered
            /\ Cardinality(numbered) = n
            /\ DistinctKeys(result)
            /\ ValuesUnder(result, numbered) = ValuesUnder(auth, OtherProviderKeys)

\* A store with a gap in its numbering (P-2 without P-1) and at least two
\* other entries has been reorganized around a numbered key.
ReorgCanonicalContiguousWitness ==
    /\ ReorgDone /\ ImplMatches(selKey)
    /\ selKey = NumberedKey(ImplPrefix, 2)
    /\ ~ObjHas(auth, NumberedKey(ImplPrefix, 1))
    /\ Cardinality(OtherProviderKeys) = 2
    /\ ObjHas(result, NumberedKey(ImplPrefix, 2))

\* Every key of the store that starts with the provider's name is P or P-<n>.
WellFormed(a, p) ==
    \A k \in KeySet(a) : StartsWith(k, p) => (k = p \/ IsNumberedKey(k, p))

\* C30: on a store whose keys starting with the provider's name are P or
\* P-<n>, with a selectedKey among them, reorganizeKeys of usage.ts and the
\* reorganizeKeys of the provider's select command return the same store,
\* in the same enumeration order of keys.
ReorgImplementationsAgree ==
    (ReorgDone /\ WellFormed(auth, prefix) /\ MatchesPrefix(selKey, prefix)) =>
        /\ result = reorganizeKeys(auth, selKey, prefix)
        /\ result = IF prefix = Anthropic THEN reorganizeKeysClaude(auth, selKey)
                                          ELSE reorganizeKeysCodex(auth, selKey)

\* A store that lists P-2, then another provider's key, then P has been
\* reorganized around P-2: the other provider's key comes first in the
\* result, then P, then P-1 with the entry that was under P.
ReorgImplementationsAgreeWitness ==
    /\ ReorgDone /\ WellFormed(auth, prefix)
    /\ ObjKeys(auth) = <<NumberedKey(prefix, 2), OtherKey(prefix), prefix>>
    /\ selKey = NumberedKey(prefix, 2)
    /\ ObjKeys(result) = <<OtherKey(prefix), prefix, NumberedKey(prefix, 1)>>
    /\ ObjGet(result, NumberedKey(prefix, 1)) = ObjGet(auth, prefix)

\* The provider's entries other than the selected one, in the enumeration
\* order of the input store.
OtherProviderEntries == SelectSeq(auth, LAMBDA e : ImplMatches(e.k) /\ e.k # selKey)

\* C15: reorganize stores the i-th non-selected provider entry of the input,
\* in the input's enumeration order, under P-i, whatever key it had before.
ReorgKeepsEnumerationOrder ==
    ReorgDone =>
        \A i \in 1..Len(OtherProviderEntries) :
            /\ ObjHas(result, NumberedKey(ImplPrefix, i))
            /\ ObjGet(result, NumberedKey(ImplPrefix, i)) = OtherProviderEntries[i].v

\* The store lists P-2 before P-1, neither is selected, and the entry that
\* was under P-2 is now under P-1.
ReorgKeepsEnumerationOrderWitness ==
    /\ ReorgDone
    /\ Len(OtherProviderEntries) = 2
    /\ OtherProviderEntries[1].k = NumberedKey(ImplPrefix, 2)
    /\ OtherProviderEntries[2].k = NumberedKey(ImplPrefix, 1)
    /\ ObjGet(result, NumberedKey(ImplPrefix, 1)) = ObjGet(auth, NumberedKey(ImplPrefix, 2))
    /\ ObjGet(result, NumberedKey(ImplPrefix, 1)) # ObjGet(auth, NumberedKey(ImplPrefix, 1))

\* C2: the multiset of entry values under keys matching P or P-* is the same
\* before and after reorganize, for every selectedKey among those keys.
ReorgValuePreserving ==
    (ReorgDone /\ MatchesPrefix(selKey, ImplPrefix)) =>
        ValuesUnder(result, {k \in KeySet(result) : MatchesPrefix(k, ImplPrefix)})
            = ValuesUnder(auth, {k \in KeySet(auth) : MatchesPrefix(k, ImplPrefix)})

\* C3: reorganize leaves every key that is neither P nor of the form P-<n>
\* under the same key with its original value, in all three implementations.
ReorgFrame ==
    ReorgDone =>
        \A k \in KeySet(auth) :
            (k # ImplPrefix /\ ~IsNumberedKey(k, ImplPrefix)) =>
                (ObjHas(result, k) /\ ObjGet(result, k) = ObjGet(auth, k))

\* C8: getSelectedAuthKey returns P when the entry at P has an access or key
\* field; otherwise the first numbered entry P-<n> in enumeration order, and
\* none exactly when the store has no such entry.
SelectedKeyFirstNumbered ==
    (mode = "reorg" /\ opName = "getSelected") =>
        LET numberedKeys == SelectSeq(ObjKeys(auth), LAMBDA k : IsNumberedKey(k, prefix))
        IN  IF HasCredential(ObjGet(auth, prefix)) THEN selectedOut = prefix
            ELSE IF Len(numberedKeys) > 0 THEN selectedOut = numberedKeys[1]
            ELSE selectedOut = NoKey

(***************************************************************************)
(* JavaScript numbers.  Percentages and times are integers here; a         *)
(* quotient is kept exact, as a fraction [n, d] in lowest terms with       *)
(* d > 0.                                                                  *)
(***************************************************************************)
RECURSIVE GCD(_, _)
GCD(a, b) == IF b = 0 THEN a ELSE GCD(b, a % b)

Abs(x) == IF x < 0 THEN -x ELSE x

\* n / d, for d # 0
Rat(n, d) == LET g == GCD(Abs(n), Abs(d))
                 s == IF d < 0 THEN -1 ELSE 1
             IN  [n |-> s * (n \div g), d |-> s * (d \div g)]

IntRat(i) == [n |-> i, d |-> 1]

\* a < b
RatLess(a, b) == a.n * b.d < b.n * a.d

\* Math.max(a, b)
RatMax(a, b) == IF RatLess(a, b) THEN b ELSE a

\* a / b, for b > 0
RatDiv(a, b) == Rat(a.n * b.d, a.d * b.n)

\* 1000 * 60 * 60
MsPerHour == 3600000

\* 1000 * 60 * 60 * 24
MsPerDay == 86400000

\* The floor of the remaining time: Math.max(0.1, ...)
Tenth == Rat(1, 10)

(***************************************************************************)
(* getUrgencyScore, claude-select.ts.  A QuotaInfo is [isNull, five_hour,  *)
(* seven_day]; a window is [defined, pct, hasReset, reset]: defined says   *)
(* that utilization !== undefined, hasReset that resets_at is truthy, and  *)
(* reset is new Date(resets_at).getTime().                                 *)
(***************************************************************************)
\* utilization / Math.max(floor, (resetsAt - Date.now()) / unit)
WindowUrgency(pct, resetsAt, nowMs, unit, floor) ==
    LET left == RatMax(floor, Rat(resetsAt - nowMs, unit))
    IN  RatDiv(IntRat(pct), left)

ClaudeScoreWithFloor(quota, nowMs, floor) ==
    IF quota.isNull THEN IntRat(0)
    ELSE LET fh == quota.five_hour
             sd == quota.seven_day
             m1 == IF fh.defined /\ fh.hasReset
                   THEN RatMax(IntRat(0), WindowUrgency(fh.pct, fh.reset, nowMs, MsPerHour, floor))
                   ELSE IntRat(0)
         IN  IF sd.defined /\ sd.hasReset
             THEN RatMax(m1, WindowUrgency(sd.pct, sd.reset, nowMs, MsPerDay, floor))
             ELSE m1

\* A getUrgencyScore whose remaining time is floored at 1 unit, not 0.1.
getUrgencyScoreClaudeFloorOne(quota, nowMs) == ClaudeScoreWithFloor(quota, nowMs, IntRat(1))

getUrgencyScoreClaude(quota, nowMs) == ClaudeScoreWithFloor(quota, nowMs, Tenth)

(***************************************************************************)
(* getUrgencyScore, codex-select.ts.  A CodexUsageData is [isNull,         *)
(* hasRateLimit, primary, secondary]; a window is [defined, pct, hasReset, *)
(* reset]: defined says that the window is present, hasReset that reset_at *)
(* is truthy, reset is reset_at as the API gives it: epoch SECONDS         *)
(* (formatReset, line 224, multiplies it by 1000).  getUrgencyScore        *)
(* subtracts Date.now(), which is milliseconds, from it as it stands.      *)
(***************************************************************************)
getUrgencyScoreCodex(usage, nowMs) ==
    IF ~usage.hasRateLimit THEN IntRat(0)
    ELSE LET pw == usage.primary
             sw == usage.secondary
             m1 == IF pw.defined /\ pw.hasReset
                   THEN RatMax(IntRat(0), WindowUrgency(pw.pct, pw.reset, nowMs, MsPerHour, Tenth))
                   ELSE IntRat(0)
         IN  IF sw.defined /\ sw.hasReset
             THEN RatMax(m1, WindowUrgency(sw.pct, sw.reset, nowMs, MsPerHour, Tenth))
             ELSE m1

(***************************************************************************)
(* The usage data the scores are computed for.  The clock reads a fixed    *)
(* instant some 27 hours after the epoch; a real clock reads more, which   *)
(* changes no comparison made here.                                        *)
(***************************************************************************)
Nows == {100000000}

NoWindow == [defined |-> FALSE, pct |-> 0, hasReset |-> FALSE, reset |-> 0]

Percents == {0, 50, 90}

\* Offsets of a five_hour reset from now, in ms: 1 minute ago, now, in 5, 6
\* and 7 minutes, in 1 and in 4 hours.
FiveHourOffsets == {-60000, 0, 300000, 360000, 420000, 3600000, 14400000}

\* Offsets of a seven_day reset from now, in ms: 1 minute ago, in 6 minutes,
\* in 2.4 hours (0.1 day), in 12 hours, in 1 and in 3 days.
SevenDayOffsets == {-60000, 360000, 8640000, 43200000, 86400000, 259200000}

ClaudeWindows(nowMs, offsets) ==
    {NoWindow}
    \cup {[defined |-> TRUE, pct |-> u, hasReset |-> FALSE, reset |-> 0] : u \in Percents}
    \cup {[defined |-> TRUE, pct |-> u, hasReset |-> TRUE, reset |-> nowMs + o] :
            u \in Percents, o \in offsets}

NullQuota == [isNull |-> TRUE, five_hour |-> NoWindow, seven_day |-> NoWindow]

ClaudeQuotas(nowMs) ==
    {NullQuota}
    \cup {[isNull |-> FALSE, five_hour |-> f, seven_day |-> d] :
            f \in ClaudeWindows(nowMs, FiveHourOffsets),
            d \in ClaudeWindows(nowMs, SevenDayOffsets)}

\* Offsets of a Codex reset_at from now, in seconds: in 7 minutes, 1 hour, 4 hours.
CodexOffsets == {420, 3600, 14400}

CodexPrimaryWindows(nowMs) ==
    {NoWindow}
    \cup {[defined |-> TRUE, pct |-> u, hasReset |-> FALSE, reset |-> 0] : u \in Percents}
    \cup {[defined |-> TRUE, pct |-> u, hasReset |-> TRUE, reset |-> (nowMs \div 1000) + o] :
            u \in Percents, o \in CodexOffsets}

CodexSecondaryWindows(nowMs) ==
    {NoWindow,
     [defined |-> TRUE, pct |-> 50, hasReset |-> TRUE, reset |-> (nowMs \div 1000) + 86400],
     [defined |-> TRUE, pct |-> 90, hasReset |-> TRUE, reset |-> (nowMs \div 1000) + 3600]}

NoRateLimit == [isNull |-> FALSE, hasRateLimit |-> FALSE,
                primary |-> NoWindow, secondary |-> NoWindow]

CodexUsages(nowMs) ==
    {NoRateLimit}
    \cup {[isNull |-> FALSE, hasRateLimit |-> TRUE, primary |-> p, secondary |-> q] :
            p \in CodexPrimaryWindows(nowMs), q \in CodexSecondaryWindows(nowMs)}

(***************************************************************************)
(* getUrgencyScore applied once: to a QuotaInfo by claude-select, to the   *)
(* usage data of two accounts by codex-select.                             *)
(***************************************************************************)
InitUrgency ==
    /\ mode = "urgency"
    /\ IdleReorg
    /\ IdleSel
    /\ IdlePanel
    /\ IdleOther
    /\ IdleFmt
    /\ IdleLate
    /\ now \in Nows
    /\ \/ usageA \in ClaudeQuotas(now) /\ usageB = NullQuota
       \/ usageA \in CodexUsages(now) /\ usageB \in CodexUsages(now)
    /\ scoreA = IntRat(0)
    /\ scoreB = IntRat(0)

IsClaudeQuota(u) == "five_hour" \in DOMAIN u

\* claude-select handler, line 257: getUrgencyScore(quota)
ScoreClaude ==
    /\ mode = "urgency" /\ opName = "none" /\ IsClaudeQuota(usageA)
    /\ scoreA' = getUrgencyScoreClaude(usageA, now)
    /\ scoreB' = getUrgencyScoreClaude(usageB, now)
    /\ opName' = "claudeScore"
    /\ UNCHANGED <<mode, auth, prefix, selKey, result, selectedOut, now, usageA, usageB, selVars, panelVars, otherVars, fmtVars, lateVars>>

\* codex-select handler, line 429: getUrgencyScore(usage)
ScoreCodex ==
    /\ mode = "urgency" /\ opName = "none" /\ ~IsClaudeQuota(usageA)
    /\ scoreA' = getUrgencyScoreCodex(usageA, now)
    /\ scoreB' = getUrgencyScoreCodex(usageB, now)
    /\ opName' = "codexScore"
    /\ UNCHANGED <<mode, auth, prefix, selKey, result, selectedOut, now, usageA, usageB, selVars, panelVars, otherVars, fmtVars, lateVars>>

NextUrgency == ScoreClaude \/ ScoreCodex

SpecUrgency == InitUrgency /\ [][NextUrgency]_vars

(***************************************************************************)
(* Claims about the urgency score.                                         *)
(***************************************************************************)
\* The ratio a window contributes according to the specification: used
\* percent over the time left until the reset (unitS seconds to the unit,
\* nowS and resetS in seconds), the time left counting as 0.1 unit when the
\* reset is past or less than 0.1 unit away.
ExpectedUrgency(pct, resetS, nowS, unitS) ==
    IF 10 * (resetS - nowS) <= unitS THEN IntRat(10 * pct)
    ELSE Rat(pct * unitS, resetS - nowS)

Computable(w) == w.defined /\ w.hasReset

\* C6: claude-select's getUrgencyScore is the maximum, over the five_hour and
\* seven_day windows that have a utilization and a reset time, of utilization
\* over the time left (hours, resp. days), the time left floored at 0.1: a
\* reset in the past or within 6 minutes counts as 0.1, the score is finite
\* and non-negative, and 50% used with a reset 1 minute ago gives 500.
ClaudeUrgencyFlooredMax ==
    (mode = "urgency" /\ opName = "claudeScore" /\ ~usageA.isNull) =>
        LET nowS == now \div 1000
            fh == usageA.five_hour
            sd == usageA.seven_day
            contributions ==
                (IF Computable(fh)
                 THEN {ExpectedUrgency(fh.pct, fh.reset \div 1000, nowS, 3600)} ELSE {})
                \cup (IF Computable(sd)
                      THEN {ExpectedUrgency(sd.pct, sd.reset \div 1000, nowS, 86400)} ELSE {})
        IN  /\ scoreA.d > 0 /\ scoreA.n >= 0
            /\ \A c \in contributions : ~RatLess(scoreA, c)
            /\ IF contributions = {} THEN scoreA = IntRat(0) ELSE scoreA \in contributions
            /\ \A w \in {fh, sd} :
                 (Computable(w) /\ w.reset - now <= 360000) => ~RatLess(scoreA, IntRat(10 * w.pct))
            /\ (Computable(fh) /\ ~Computable(sd) /\ fh.pct = 50 /\ fh.reset = now - 60000)
                 => scoreA = IntRat(500)

\* 50% of the five_hour window used, its reset 1 minute ago, no seven_day
\* window: the score is 500.
ClaudeUrgencyFlooredMaxWitness ==
    /\ mode = "urgency" /\ opName = "claudeScore" /\ ~usageA.isNull
    /\ Computable(usageA.five_hour) /\ ~Computable(usageA.seven_day)
    /\ usageA.five_hour.pct = 50 /\ usageA.five_hour.reset = now - 60000
    /\ scoreA = IntRat(500)

\* C7: codex-select's getUrgencyScore is the maximum over the primary and
\* secondary windows of used_percent over the hours left until reset_at
\* (floored at 0.1 hour): of two accounts with the same used percent, the one
\* whose window resets later gets the strictly lower score whenever both
\* resets are more than 6 minutes away.
CodexLaterResetLowerScore ==
    (/\ mode = "urgency" /\ opName = "codexScore"
     /\ usageA.hasRateLimit /\ usageB.hasRateLimit
     /\ Computable(usageA.primary) /\ Computable(usageB.primary)
     /\ ~usageA.secondary.defined /\ ~usageB.secondary.defined
     /\ usageA.primary.pct = usageB.primary.pct /\ usageA.primary.pct > 0
     /\ usageA.primary.reset - (now \div 1000) > 360
     /\ usageB.primary.reset > usageA.primary.reset)
    => /\ scoreA = ExpectedUrgency(usageA.primary.pct, usageA.primary.reset, now \div 1000, 3600)
       /\ RatLess(scoreB, scoreA)

(***************************************************************************)
(* The /claude-select and /codex-select commands: load auth.json, fetch    *)
(* usage and profile of every account in parallel, show the list with the  *)
(* least urgent account marked, and promote the chosen one.                *)
(***************************************************************************)
MaxAccounts == 2

Codex == <<"codex">>

RECURSIVE MigrateKeys(_, _)
\* for (const key of codexKeys) { delete result[key]; result[newKey] = value }
MigrateKeys(r, keys) ==
    IF keys = <<>> THEN r
    ELSE LET key    == Head(keys)
             value  == ObjGet(r, key)
             suffix == IF key = Codex THEN <<>> ELSE Tail(key)
         IN  MigrateKeys(ObjSet(ObjDelete(r, key), OpenaiCodex \o suffix, value), Tail(keys))

\* A migration without the hasOpenaiCodex guard: it would run whenever a
\* key starts with codex.
migrateCodexKeysUnguarded(a) ==
    LET codexKeys == SelectSeq(ObjKeys(a), LAMBDA k : StartsWith(k, Codex))
    IN  IF Len(codexKeys) = 0
        THEN [auth |-> a, migrated |-> FALSE]
        ELSE [auth |-> MigrateKeys(a, codexKeys), migrated |-> TRUE]

migrateCodexKeys(a) ==
    LET hasOpenaiCodex == \E i \in 1..Len(a) : StartsWith(a[i].k, OpenaiCodex)
        codexKeys      == SelectSeq(ObjKeys(a), LAMBDA k : StartsWith(k, Codex))
    IN  IF hasOpenaiCodex \/ Len(codexKeys) = 0
        THEN [auth |-> a, migrated |-> FALSE]
        ELSE [auth |-> MigrateKeys(a, codexKeys), migrated |-> TRUE]

\* Map.prototype.has / get / set on a Map kept as its insertion sequence.
MapHas(m, k) == \E i \in 1..Len(m) : m[i].k = k

MapGet(m, k, missing) ==
    IF MapHas(m, k) THEN m[CHOOSE i \in 1..Len(m) : m[i].k = k].v ELSE missing

MapSet(m, k, v) ==
    IF MapHas(m, k)
    THEN [i \in 1..Len(m) |-> IF m[i].k = k THEN [k |-> k, v |-> v] ELSE m[i]]
    ELSE Append(m, [k |-> k, v |-> v])

\* ProfileInfo | null; "" stands for a missing uuid or email.
NullProfile == [isNull |-> TRUE, uuid |-> "", email |-> ""]

ProfileOf(m, k) == MapGet(m, k, NullProfile)

NullUsage == [isNull |-> TRUE, hasRateLimit |-> FALSE,
              primary |-> NoWindow, secondary |-> NoWindow]

\* The address /v1/me returns for an account.
EmailOf(entry) == IF entry.id = 1 THEN "one@mail" ELSE IF entry.id = 2 THEN "two@mail"
                  ELSE "other@mail"

RECURSIVE UniqueFrom(_, _, _)
\* entries.filter(...) with seenUUIDs: the first entry of every uuid is kept,
\* entries without uuid are all kept.
UniqueFrom(entries, profiles, seenUUIDs) ==
    IF entries = <<>> THEN <<>>
    ELSE LET e    == Head(entries)
             uuid == ProfileOf(profiles, e.k).uuid
         IN  IF uuid = "" THEN <<e>> \o UniqueFrom(Tail(entries), profiles, seenUUIDs)
             ELSE IF uuid \in seenUUIDs THEN UniqueFrom(Tail(entries), profiles, seenUUIDs)
             ELSE <<e>> \o UniqueFrom(Tail(entries), profiles, seenUUIDs \cup {uuid})

uniqueEntries(entries, profiles) == UniqueFrom(entries, profiles, {})

SelectScore(c, q, nowMs) ==
    IF c = "claude" THEN getUrgencyScoreClaude(q, nowMs) ELSE getUrgencyScoreCodex(q, nowMs)

RECURSIVE BestFrom(_, _, _, _, _, _)
\* for (const [key, quota] of quotaMap.entries())
\*     if (quota) { if (urgency < lowestUrgency) { lowestUrgency = urgency; bestKey = key } }
\* `infinite` tells that lowestUrgency is still Infinity.
BestFrom(c, m, nowMs, best, infinite, lowest) ==
    IF m = <<>> THEN best
    ELSE LET key     == Head(m).k
             quota   == Head(m).v
             urgency == SelectScore(c, quota, nowMs)
         IN  IF ~quota.isNull /\ (infinite \/ RatLess(urgency, lowest))
             THEN BestFrom(c, Tail(m), nowMs, key, FALSE, urgency)
             ELSE BestFrom(c, Tail(m), nowMs, best, infinite, lowest)

FindBestKey(c, m, nowMs) == BestFrom(c, m, nowMs, NoKey, TRUE, IntRat(0))

\* uniqueEntries.map(...): a label per entry; of the label the model keeps the
\* key it maps back to and the "(recommended)" suffix.
displayItems(unique, best) ==
    [i \in 1..Len(unique) |-> [key |-> unique[i].k, isBest |-> unique[i].k = best]]

(***************************************************************************)
(* What the network can answer to one account's fetches.                   *)
(***************************************************************************)
WindowAt(pct, reset) == [defined |-> TRUE, pct |-> pct, hasReset |-> TRUE, reset |-> reset]

\* fetchQuotaInfo: null (failure), a body without windows, 90% and 50% of the
\* five_hour window with a reset in 1 hour, 50% with a reset in 4 hours.
QuotaOutcomes(nowMs) ==
    {NullQuota,
     [isNull |-> FALSE, five_hour |-> NoWindow, seven_day |-> NoWindow],
     [isNull |-> FALSE, five_hour |-> WindowAt(90, nowMs + 3600000), seven_day |-> NoWindow],
     [isNull |-> FALSE, five_hour |-> WindowAt(50, nowMs + 3600000), seven_day |-> NoWindow],
     [isNull |-> FALSE, five_hour |-> WindowAt(50, nowMs + 14400000), seven_day |-> NoWindow]}

\* fetchCodexUsage: null, a body without rate_limit, 90% and 50% of the primary
\* window with a reset in 1 hour, 90% with a reset in 4 hours (reset_at in
\* epoch seconds).
UsageOutcomes(nowMs) ==
    {NullUsage,
     NoRateLimit,
     [isNull |-> FALSE, hasRateLimit |-> TRUE,
      primary |-> WindowAt(90, (nowMs \div 1000) + 3600), secondary |-> NoWindow],
     [isNull |-> FALSE, hasRateLimit |-> TRUE,
      primary |-> WindowAt(50, (nowMs \div 1000) + 3600), secondary |-> NoWindow],
     [isNull |-> FALSE, hasRateLimit |-> TRUE,
      primary |-> WindowAt(90, (nowMs \div 1000) + 14400), secondary |-> NoWindow]}

\* fetchProfileInfo / fetchCodexProfile: null, or an account with a uuid and
\* possibly an email.
ProfileOutcomes ==
    {NullProfile,
     [isNull |-> FALSE, uuid |-> "u1", email |-> "a@mail"],
     [isNull |-> FALSE, uuid |-> "u1", email |-> ""],
     [isNull |-> FALSE, uuid |-> "u2", email |-> "b@mail"]}

SelectKinds == {"access", "key"}

\* auth.json with n accounts of provider p, the active one first, and a Z.AI key.
SelectStore(p, n, kinds) ==
    [i \in 1..n |-> [k |-> IF i = 1 THEN p ELSE NumberedKey(p, i - 1),
                     v |-> MkEntry(kinds[i], i)]]
    \o <<[k |-> Zai, v |-> MkEntry("key", 9)]>>

InitSelect ==
    /\ mode = "select"
    /\ IdleReorg
    /\ IdlePanel
    /\ IdleOther
    /\ IdleFmt
    /\ IdleLate
    /\ now \in Nows /\ usageA = <<>> /\ usageB = <<>> /\ scoreA = <<>> /\ scoreB = <<>>
    /\ cmd \in {"claude", "codex"}
    /\ \E n \in 0..MaxAccounts, kinds \in [1..MaxAccounts -> SelectKinds],
          p \in {Anthropic, OpenaiCodex, Codex} :
          /\ p = Anthropic <=> cmd = "claude"
          /\ authFile \in {SelectStore(p, n, kinds), Corrupt}
    /\ hPc = "start" /\ hAuth = <<>> /\ pending = {}
    /\ quotaMap = <<>> /\ profileMap = <<>> /\ bestKey = NoKey /\ items = <<>>
    /\ notice = "none"

(***************************************************************************)
(* The file and the processes that share it.                               *)
(***************************************************************************)
\* A save that would keep what the file holds under keys the writer does not
\* know: the merge saveAuth does not do.
saveAuthKeepingOthers(current, data) ==
    data \o SelectSeq(current, LAMBDA e : ~ObjHas(data, e.k))

\* saveAuth: fs.writeFileSync of the writer's whole object; what the file
\* held is replaced, nothing is read back or merged.
saveAuth(current, data) == data

\* loadAuth of codex-select.ts: the parsed file after migrateCodexKeys; the
\* migrated object is saved before it is returned.
loadAuthCodex(file) ==
    LET migrated == migrateCodexKeys(file)
    IN  IF file = Corrupt THEN [thrown |-> TRUE, auth |-> <<>>, file |-> file]
        ELSE [thrown |-> FALSE,
              auth   |-> migrated.auth,
              file   |-> IF migrated.migrated THEN saveAuth(file, migrated.auth) ELSE file]

Copilot == <<"github-copilot">>

\* Another process (a login flow of pi) saves its new entry to the same file
\* while a command waits for the network or for the user. No lock keeps it
\* out. The write commutes with the settling of fetches, so it is taken once
\* they are all in.
ExternalWrite ==
    /\ mode = "select" /\ hPc \in {"fetching", "select"} /\ pending = {}
    /\ ~loginWritten
    /\ ~ObjHas(authFile, Copilot)
    /\ authFile' = ObjSet(authFile, Copilot, MkEntry("access", 7))
    /\ loginWritten' = TRUE
    /\ UNCHANGED <<mode, reorgVars, urgVars, panelVars, fmtVars, lateVars, wPc, wAuth, handlerVars>>

(***************************************************************************)
(* /claude-select                                                          *)
(***************************************************************************)
\* loadAuth of claude-select.ts: the parsed file; JSON.parse is not guarded.
loadAuthClaude(file) ==
    IF file = Corrupt THEN [thrown |-> TRUE, auth |-> <<>>]
    ELSE [thrown |-> FALSE, auth |-> file]

\* From loadAuth to the await of the fetches.
StartClaude ==
    /\ mode = "select" /\ cmd = "claude" /\ hPc = "start" /\ wPc = "idle"
    /\ LET loaded == loadAuthClaude(authFile)
           anthropicEntries == getAnthropicEntries(loaded.auth)
       IN  /\ hAuth' = loaded.auth
           /\ IF loaded.thrown
              THEN hPc' = "done" /\ notice' = "error" /\ pending' = {}
              ELSE IF Len(anthropicEntries) = 0
              THEN hPc' = "done" /\ notice' = "none found" /\ pending' = {}
              ELSE IF Len(anthropicEntries) = 1
              THEN hPc' = "done" /\ notice' = "only one" /\ pending' = {}
              ELSE /\ hPc' = "fetching" /\ notice' = notice
                   /\ pending' = {anthropicEntries[i].k : i \in
                                    {j \in 1..Len(anthropicEntries) :
                                        /\ anthropicEntries[j].v.type = "oauth"
                                        /\ anthropicEntries[j].v.access # ""}}
    /\ UNCHANGED <<mode, reorgVars, urgVars, panelVars, otherVars, fmtVars, lateVars, authFile, cmd, quotaMap, profileMap, bestKey, items>>

\* One account's fetchQuotaInfo and fetchProfileInfo have both settled.
FetchDoneClaude ==
    /\ mode = "select" /\ cmd = "claude" /\ hPc = "fetching"
    /\ \E key \in pending, quota \in QuotaOutcomes(now), profile \in ProfileOutcomes :
          /\ pending' = pending \ {key}
          /\ quotaMap' = MapSet(quotaMap, key, quota)
          /\ profileMap' = MapSet(profileMap, key, profile)
    /\ UNCHANGED <<mode, reorgVars, urgVars, panelVars, otherVars, fmtVars, lateVars, authFile, cmd, hPc, hAuth, bestKey, items, notice>>

\* From the end of the fetches to the await of ctx.ui.select.
DisplayClaude ==
    /\ mode = "select" /\ cmd = "claude" /\ hPc = "fetching" /\ pending = {}
    /\ LET unique == uniqueEntries(getAnthropicEntries(hAuth), profileMap)
           best   == FindBestKey("claude", quotaMap, now)
       IN  /\ bestKey' = best
           /\ items' = displayItems(unique, best)
    /\ hPc' = "select"
    /\ UNCHANGED <<mode, reorgVars, urgVars, panelVars, otherVars, fmtVars, lateVars, authFile, cmd, hAuth, pending, quotaMap, profileMap, notice>>

\* The user picked an entry: reorganizeKeys, saveAuth, reload, notify.
SwitchClaude ==
    /\ mode = "select" /\ cmd = "claude" /\ hPc = "select"
    /\ \E i \in 1..Len(items) :
          authFile' = saveAuth(authFile, reorganizeKeysClaude(hAuth, items[i].key))
    /\ hPc' = "done" /\ notice' = "switched"
    /\ UNCHANGED <<mode, reorgVars, urgVars, panelVars, otherVars, fmtVars, lateVars, cmd, hAuth, pending, quotaMap, profileMap, bestKey, items>>

\* The user dismissed the list: if (!selectedLabel) return
CancelSelect ==
    /\ mode = "select" /\ hPc = "select"
    /\ hPc' = "done"
    /\ UNCHANGED <<mode, reorgVars, urgVars, panelVars, otherVars, fmtVars, lateVars, authFile, cmd, hAuth, pending, quotaMap, profileMap, bestKey, items, notice>>

(***************************************************************************)
(* /codex-select                                                           *)
(***************************************************************************)
\* From loadAuth (which saves a migrated file) to the await of the fetches.
StartCodex ==
    /\ mode = "select" /\ cmd = "codex" /\ hPc = "start" /\ wPc = "idle"
    /\ LET loaded == loadAuthCodex(authFile)
           codexEntries == getCodexEntries(loaded.auth)
       IN  /\ authFile' = loaded.file
           /\ hAuth' = loaded.auth
           /\ IF loaded.thrown
              THEN hPc' = "done" /\ notice' = "error" /\ pending' = {}
              ELSE IF Len(codexEntries) = 0
              THEN hPc' = "done" /\ notice' = "none found" /\ pending' = {}
              ELSE IF Len(codexEntries) = 1
              THEN hPc' = "done" /\ notice' = "only one" /\ pending' = {}
              ELSE /\ hPc' = "fetching" /\ notice' = notice
                   /\ pending' = {codexEntries[i].k : i \in
                                    {j \in 1..Len(codexEntries) :
                                        /\ codexEntries[j].v.type \in {"oauth", "api_key"}
                                        /\ HasCredential(codexEntries[j].v)}}
    /\ UNCHANGED <<mode, reorgVars, urgVars, panelVars, otherVars, fmtVars, lateVars, cmd, quotaMap, profileMap, bestKey, items>>

\* One account's fetchCodexUsage and fetchCodexProfile have both settled.
FetchDoneCodex ==
    /\ mode = "select" /\ cmd = "codex" /\ hPc = "fetching"
    /\ \E key \in pending, usage \in UsageOutcomes(now), profile \in ProfileOutcomes :
          /\ pending' = pending \ {key}
          /\ quotaMap' = MapSet(quotaMap, key, usage)
          /\ profileMap' = MapSet(profileMap, key, profile)
    /\ UNCHANGED <<mode, reorgVars, urgVars, panelVars, otherVars, fmtVars, lateVars, authFile, cmd, hPc, hAuth, bestKey, items, notice>>

\* tryGetAccountEmail: null without an access token, else what /v1/me gave.
tryGetAccountEmail(entry, found) ==
    IF entry.access = "" THEN "" ELSE IF found THEN EmailOf(entry) ELSE ""

\* An email cache that would write back the fetched accounts only.
CacheEmailsFetchedOnly(a, profiles, fetched, found) ==
    SelectSeq([i \in 1..Len(a) |->
                  IF /\ a[i].k \in fetched
                     /\ ProfileOf(profiles, a[i].k).email = ""
                     /\ tryGetAccountEmail(a[i].v, found[a[i].k]) # ""
                     /\ a[i].v.email = ""
                  THEN [k |-> a[i].k, v |-> [a[i].v EXCEPT !.email = EmailOf(a[i].v)]]
                  ELSE a[i]],
              LAMBDA e : e.k \in fetched)

\* (entry as any).email = email, for the fetched keys whose profile has no
\* email, whose lookup found one and whose entry has none yet.
CacheEmails(a, profiles, fetched, found) ==
    [i \in 1..Len(a) |->
        IF /\ a[i].k \in fetched
           /\ ProfileOf(profiles, a[i].k).email = ""
           /\ tryGetAccountEmail(a[i].v, found[a[i].k]) # ""
           /\ a[i].v.email = ""
        THEN [k |-> a[i].k, v |-> [a[i].v EXCEPT !.email = EmailOf(a[i].v)]]
        ELSE a[i]]

\* profileMap.set(key, {account: {email, uuid: profile?.account?.uuid}}) where
\* the profile has no email and a lookup found one.
FillEmails(a, profiles, keys, found) ==
    [i \in 1..Len(profiles) |->
        LET key == profiles[i].k
            email == IF key \in keys
                     THEN tryGetAccountEmail(ObjGet(a, key), found[key]) ELSE ""
        IN  IF profiles[i].v.email = "" /\ email # ""
            THEN [k |-> key, v |-> [isNull |-> FALSE, uuid |-> profiles[i].v.uuid, email |-> email]]
            ELSE profiles[i]]

\* From the end of the fetches to the await of ctx.ui.select: the email
\* lookups, the save of the cached emails, the best key and the list.
DisplayCodex ==
    /\ mode = "select" /\ cmd = "codex" /\ hPc = "fetching" /\ pending = {}
    /\ LET codexEntries == getCodexEntries(hAuth)
           fetched == {quotaMap[i].k : i \in 1..Len(quotaMap)}
           unique  == uniqueEntries(codexEntries, profileMap)
           best    == FindBestKey("codex", quotaMap, now)
       IN  \E found \in [fetched -> BOOLEAN], foundAgain \in [fetched -> BOOLEAN] :
              LET updatedAuth == CacheEmails(hAuth, profileMap, fetched, found)
                  authUpdated == updatedAuth # hAuth
                  profiles1   == FillEmails(hAuth, profileMap, fetched, found)
                  uniqueKeys  == {unique[i].k : i \in 1..Len(unique)} \cap fetched
              IN  /\ hAuth' = updatedAuth
                  /\ authFile' = IF authUpdated THEN saveAuth(authFile, updatedAuth)
                                  ELSE authFile
                  /\ profileMap' = FillEmails(hAuth, profiles1, uniqueKeys, foundAgain)
                  /\ bestKey' = best
                  /\ items' = displayItems(unique, best)
    /\ hPc' = "select"
    /\ UNCHANGED <<mode, reorgVars, urgVars, panelVars, otherVars, fmtVars, lateVars, cmd, pending, quotaMap, notice>>

\* The user picked an entry: reorganizeKeys, saveAuth, the refresh of the
\* usage widget, reload, notify. The refresh assigns to the constant `email`
\* when usage and profile arrived and the profile names nobody: the handler's
\* catch then reports the error instead of the switch.
SwitchCodex ==
    /\ mode = "select" /\ cmd = "codex" /\ hPc = "select"
    /\ \E i \in 1..Len(items), refreshThrows \in BOOLEAN :
          /\ refreshThrows => HasCredential(ObjGet(hAuth, items[i].key))
          /\ authFile' = saveAuth(authFile, reorganizeKeysCodex(hAuth, items[i].key))
          /\ notice' = IF refreshThrows THEN "error" ELSE "switched"
    /\ hPc' = "done"
    /\ UNCHANGED <<mode, reorgVars, urgVars, panelVars, otherVars, fmtVars, lateVars, cmd, hAuth, pending, quotaMap, profileMap, bestKey, items>>

(***************************************************************************)
(* updateUsageWidget of codex-select.ts, run on session_start and on       *)
(* model_select when the model's provider is Codex or OpenAI.  It is taken *)
(* here between commands: an invocation begins and ends while no command   *)
(* runs, and a command begins when no invocation is in flight.             *)
(***************************************************************************)
\* From loadAuth to the await of fetchCodexUsage and fetchCodexProfile.
WidgetStart ==
    /\ mode = "select" /\ hPc = "start" /\ wPc = "idle"
    /\ LET loaded    == loadAuthCodex(authFile)
           codexAuth == ObjGet(loaded.auth, OpenaiCodex)
       IN  /\ authFile' = loaded.file
           /\ IF \/ loaded.thrown
                 \/ ~Truthy(codexAuth)
                 \/ codexAuth.type \notin {"oauth", "api_key"}
                 \/ ~HasCredential(codexAuth)
              THEN wPc' = "idle" /\ wAuth' = <<>>
              ELSE wPc' = "fetching" /\ wAuth' = codexAuth
    /\ UNCHANGED <<mode, reorgVars, urgVars, panelVars, fmtVars, lateVars, loginWritten, handlerVars>>

\* Usage and profile have settled: return without both; the label is the
\* profile's email or the entry's cached one, else tryGetAccountEmail is
\* awaited.
WidgetFetched ==
    /\ mode = "select" /\ hPc = "start" /\ wPc = "fetching"
    /\ \E usage \in {NullUsage, NoRateLimit}, profile \in ProfileOutcomes :
          IF usage.isNull \/ profile.isNull \/ profile.email # "" \/ wAuth.email # ""
          THEN wPc' = "idle" /\ wAuth' = <<>>
          ELSE wPc' = "lookup" /\ wAuth' = wAuth
    /\ UNCHANGED <<mode, reorgVars, urgVars, panelVars, fmtVars, lateVars, loginWritten, authFile, handlerVars>>

\* tryGetAccountEmail has settled: a found email is put on codexAuth, the
\* file is loaded again, its "openai-codex" entry replaced by codexAuth and
\* the whole saved.
WidgetLookup ==
    /\ mode = "select" /\ hPc = "start" /\ wPc = "lookup"
    /\ \E found \in BOOLEAN :
          LET email  == tryGetAccountEmail(wAuth, found)
              loaded == loadAuthCodex(authFile)
          IN  authFile' = IF email = "" \/ loaded.thrown THEN authFile
                          ELSE saveAuth(loaded.file,
                                        ObjSet(loaded.auth, OpenaiCodex,
                                               [wAuth EXCEPT !.email = email]))
    /\ wPc' = "idle" /\ wAuth' = <<>>
    /\ UNCHANGED <<mode, reorgVars, urgVars, panelVars, fmtVars, lateVars, loginWritten, handlerVars>>

NextSelect ==
    \/ StartClaude
    \/ FetchDoneClaude
    \/ DisplayClaude
    \/ SwitchClaude
    \/ StartCodex
    \/ FetchDoneCodex
    \/ DisplayCodex
    \/ SwitchCodex
    \/ CancelSelect
    \/ ExternalWrite
    \/ WidgetStart
    \/ WidgetFetched
    \/ WidgetLookup

SpecSelect == InitSelect /\ [][NextSelect]_vars

(***************************************************************************)
(* Properties of the recommendation.                                       *)
(***************************************************************************)
Listed == mode = "select" /\ hPc \in {"select", "done"} /\ Len(items) > 0

\* The windows of a snapshot whose urgency can be computed: used percent and
\* reset time both known.
ComputableWindows(c, q) ==
    IF q.isNull THEN {}
    ELSE IF c = "claude"
    THEN (IF Computable(q.five_hour) THEN {[w |-> q.five_hour, unitS |-> 3600, resetS |-> q.five_hour.reset \div 1000]} ELSE {})
         \cup (IF Computable(q.seven_day) THEN {[w |-> q.seven_day, unitS |-> 86400, resetS |-> q.seven_day.reset \div 1000]} ELSE {})
    ELSE IF ~q.hasRateLimit THEN {}
    ELSE {[w |-> x, unitS |-> 3600, resetS |-> x.reset] :
            x \in {y \in {q.primary, q.secondary} : Computable(y)}}

HasUrgency(c, q) == ComputableWindows(c, q) # {}

\* Utilization over time left, the maximum over the computable windows.
Urgency(c, q, nowMs) ==
    LET us == {ExpectedUrgency(x.w.pct, x.resetS, nowMs \div 1000, x.unitS) :
                 x \in ComputableWindows(c, q)}
    IN  CHOOSE u \in us : \A v \in us : ~RatLess(u, v)

\* The snapshot fetched for a listed key; null when none was fetched.
SnapshotOf(key) == MapGet(quotaMap, key, IF cmd = "claude" THEN NullQuota ELSE NullUsage)

ListedWithUrgency == {i \in 1..Len(items) : HasUrgency(cmd, SnapshotOf(items[i].key))}

\* C4: in the select commands, among the listed entries whose urgency is
\* computable the one with the lowest urgency is the one marked recommended
\* (A at 90% and B at 50%, both resetting in 1 hour: B is marked).
LowestUrgencyRecommended ==
    (Listed /\ ListedWithUrgency # {}) =>
        /\ \E i \in ListedWithUrgency : items[i].isBest
        /\ \A i \in 1..Len(items) :
              items[i].isBest =>
                 /\ i \in ListedWithUrgency
                 /\ \A j \in ListedWithUrgency :
                       ~RatLess(Urgency(cmd, SnapshotOf(items[j].key), now),
                                Urgency(cmd, SnapshotOf(items[i].key), now))

\* C5: an entry without a computable window is never marked recommended, and
\* when no listed entry has a computable urgency none is marked.
NoWindowNeverRecommended ==
    Listed => \A i \in 1..Len(items) :
                 items[i].isBest => HasUrgency(cmd, SnapshotOf(items[i].key))

\* The snapshots of quotaMap in the order of the store's entries: what the
\* map would be had the fetches completed in the order they were started.
InStoreOrder(m, a) ==
    LET fetched == SelectSeq(a, LAMBDA e : MapHas(m, e.k))
    IN  [i \in 1..Len(fetched) |->
            [k |-> fetched[i].k, v |-> m[CHOOSE j \in 1..Len(m) : m[j].k = fetched[i].k].v]]

\* C16: the recommended key is a function of the credential store and the
\* usage data: of the entries tied for the lowest urgency the first in the
\* store's order is recommended, whatever the order in which the fetches
\* completed (stated for usage data with a computable urgency throughout).
TieBreakIndependentOfCompletion ==
    (Listed /\ \A i \in 1..Len(quotaMap) : HasUrgency(cmd, quotaMap[i].v)) =>
        bestKey = FindBestKey(cmd, InStoreOrder(quotaMap, hAuth), now)

\* C19: a select command started on a file that cannot be parsed behaves as
\* with no logins: it ends with the "no logins found" notice, and no error
\* is raised or reported.
CorruptFileIsEmptyStore ==
    (mode = "select" /\ hPc = "done" /\ authFile = Corrupt) => notice = "none found"

(***************************************************************************)
(* Properties of the writes to the file.                                   *)
(***************************************************************************)
\* The command saved after the user's pick.
Saved == mode = "select" /\ hPc = "done" /\ Len(items) > 0 /\ notice \in {"switched", "error"}

reorganizeKeysOf(c, a, selectedKey) ==
    IF c = "claude" THEN reorganizeKeysClaude(a, selectedKey)
    ELSE reorganizeKeysCodex(a, selectedKey)

\* C11: a select command saves the object it loaded at its start, reorganized
\* around the pick; what another process wrote to the file between the load
\* and the save is gone after the save.
LastWriteWins ==
    Saved => /\ \E i \in 1..Len(items) :
                   authFile = reorganizeKeysOf(cmd, hAuth, items[i].key)
             /\ loginWritten => ~ObjHas(authFile, Copilot)

LastWriteWinsWitness == Saved /\ loginWritten

\* b is a with other cached emails: the same keys in the same order, every
\* entry the same but for its email.
EmailsOnly(a, b) ==
    /\ ObjKeys(a) = ObjKeys(b)
    /\ \A i \in 1..Len(a) : [a[i].v EXCEPT !.email = b[i].v.email] = b[i].v

\* A step that writes the file on the user's pick or from another process.
UserWrite == SwitchClaude \/ SwitchCodex \/ ExternalWrite

FETCH_TIMEOUT_MS == 10000

USAGE_RACE_TIMEOUT_MS == 15000

\* The time an answered call takes.
QuickMs == 100

\* A body that stalls after the headers is not bounded by the abort timer,
\* which is cleared once the headers are there: the read fails when the
\* runtime gives up, later than the panel waits.
LateMs == USAGE_RACE_TIMEOUT_MS + FETCH_TIMEOUT_MS

\* The usage call: a 200 with windows, a 200 without, a 500, a 401, a
\* rejected fetch, no answer within FETCH_TIMEOUT_MS, a body that is not
\* JSON, a body that stalls; for Z.AI also a body with success false.
UsageCalls == {"ok", "empty", "http", "denied", "neterr", "abort", "badjson", "stall"}

ZaiCalls == UsageCalls \cup {"apierr"}

\* The profile call: an account with email and plan, nothing ({} or
\* undefined), no answer within FETCH_TIMEOUT_MS.
ProfileCalls == {"full", "none", "abort"}

AbortText == "AbortError: This operation was aborted"

ErrorText(call) ==
    CASE call = "neterr"  -> "TypeError: fetch failed"
      [] call = "abort"   -> AbortText
      [] call = "badjson" -> "SyntaxError: Unexpected token"
      [] call = "stall"   -> "TypeError: terminated"
      [] call = "http"    -> "http 500"
      [] call = "denied"  -> "http 401"
      [] OTHER            -> ""

\* A UsageSnapshot; "" and NoKey stand for undefined.
Snapshot(provider, displayName, windows, plan, error) ==
    [provider |-> provider, displayName |-> displayName, windows |-> windows,
     plan |-> plan, error |-> error, status |-> "", selected |-> FALSE, authKey |-> NoKey]

\* profile.email ? `claude (${profile.email})` : baseName, where baseName is
\* authKey === "anthropic" ? "claude" : `claude (${authKey})`
DisplayName(base, email, authKey, p) ==
    IF email # "" THEN <<base, email>>
    ELSE IF authKey = p THEN <<base>> ELSE <<base>> \o authKey

Returned(snap, ms) == [snap |-> snap, elapsed |-> ms, thrown |-> FALSE]

\* The catch block of a helper; without it the exception leaves the helper.
Caught(catches, provider, displayName, text, ms) ==
    IF catches THEN Returned(Snapshot(provider, displayName, <<>>, "", text), ms)
    ELSE [snap |-> Snapshot(provider, displayName, <<>>, "", ""), elapsed |-> ms, thrown |-> TRUE]

\* The part of the three helpers that is common: the fetch and the profile
\* call run together under one abort timer, then the status is looked at and
\* the body read. `onStatus` is what the helper returns for a non-2xx status
\* and `onBody` for a body it could parse.
HelperWith(catches, provider, baseName, call, profileCall, onStatus, onBody) ==
    IF call \in {"neterr", "abort"}
    THEN Caught(catches, provider, baseName, ErrorText(call),
                IF call = "abort" THEN FETCH_TIMEOUT_MS ELSE QuickMs)
    ELSE LET aborted == profileCall = "abort"
             ms      == IF aborted THEN FETCH_TIMEOUT_MS ELSE QuickMs
         IN  IF call \in {"http", "denied"} THEN Returned(onStatus, ms)
             \* the usage timer fires before the profile call is given up:
             \* the body of the aborted request cannot be read any more
             ELSE IF aborted THEN Caught(catches, provider, baseName, AbortText, ms)
             ELSE IF call = "badjson"
             THEN Caught(catches, provider, baseName, ErrorText(call), ms)
             ELSE IF call = "stall"
             THEN Caught(catches, provider, baseName, ErrorText(call), LateMs)
             ELSE Returned(onBody, ms)

ProfileEmail(profileCall) == IF profileCall = "full" THEN "user@mail" ELSE ""

ClaudeHelper(catches, token, authKey, o) ==
    LET baseName    == DisplayName("claude", "", authKey, Anthropic)
        email       == ProfileEmail(o.p)
        plan        == IF o.p = "full" THEN "claude max" ELSE ""
        displayName == DisplayName("claude", email, authKey, Anthropic)
    IN  HelperWith(catches, "anthropic", baseName, o.u, o.p,
            Snapshot("anthropic", displayName, <<>>, "", ErrorText(o.u)),
            Snapshot("anthropic", displayName,
                     IF o.u = "ok" THEN <<"5h", "week">> ELSE <<>>, plan, ""))

fetchClaudeProfileAndUsageNoCatch(token, authKey, o) == ClaudeHelper(FALSE, token, authKey, o)

fetchClaudeProfileAndUsage(token, authKey, o) == ClaudeHelper(TRUE, token, authKey, o)

\* loadCodexCachedEmailForKey reads the file again.
loadCodexCachedEmailForKey(file, authKey) == ObjGet(file, authKey).email

fetchCodexProfileAndUsage(file, accessToken, authKey, o) ==
    LET baseName    == DisplayName("codex", "", authKey, OpenaiCodex)
        cachedEmail == loadCodexCachedEmailForKey(file, authKey)
        profileCall == IF cachedEmail # "" THEN "cached" ELSE o.p
        codexEmail  == IF cachedEmail # "" THEN cachedEmail ELSE ProfileEmail(o.p)
        displayName == DisplayName("codex", codexEmail, authKey, OpenaiCodex)
    IN  HelperWith(TRUE, "codex", baseName, o.u, profileCall,
            Snapshot("codex", displayName, <<>>, "",
                     IF o.u = "denied" THEN "token expired" ELSE ErrorText(o.u)),
            Snapshot("codex", displayName,
                     IF o.u = "ok" THEN <<"3h", "week">> ELSE <<>>,
                     IF o.u = "ok" THEN "plus" ELSE "", ""))

fetchZaiProfileAndUsage(apiKey, authKey, o) ==
    LET baseName == DisplayName("z.ai", "", authKey, Zai)
    IN  HelperWith(TRUE, "zai", baseName, o.u, "none",
            Snapshot("zai", baseName, <<>>, "", ErrorText(o.u)),
            IF o.u = "apierr" THEN Snapshot("zai", baseName, <<>>, "", "api error")
            ELSE Snapshot("zai", baseName, IF o.u = "ok" THEN <<"5h">> ELSE <<>>, "", ""))

\* What a fetcher has gathered so far.
NoSnapshots == [snapshots |-> <<>>, elapsed |-> 0, thrown |-> FALSE]

\* snapshot.selected = ...; snapshot.authKey = ...; snapshots.push(snapshot)
\* after the helper r returned; a helper that threw ends the fetcher.
Push(acc, r, selected, authKey) ==
    IF r.thrown THEN [snapshots |-> acc.snapshots, elapsed |-> acc.elapsed + r.elapsed, thrown |-> TRUE]
    ELSE [snapshots |-> Append(acc.snapshots, [r.snap EXCEPT !.selected = selected, !.authKey = authKey]),
          elapsed   |-> acc.elapsed + r.elapsed,
          thrown    |-> FALSE]

\* if (snapshots.length === 0) snapshots.push({..., windows: [], error})
OrNone(acc, provider, displayName, error) ==
    IF ~acc.thrown /\ acc.snapshots = <<>>
    THEN [acc EXCEPT !.snapshots = <<Snapshot(provider, displayName, <<>>, "", error)>>]
    ELSE acc

RECURSIVE ClaudeLoop(_, _, _, _, _)
\* for (const key of anthropicKeys) { if (!entry?.access) continue; ... }
ClaudeLoop(authData, keys, selectedKey, answers, acc) ==
    IF keys = <<>> \/ acc.thrown THEN acc
    ELSE LET key   == Head(keys)
             entry == ObjGet(authData, key)
         IN  IF entry.access = ""
             THEN ClaudeLoop(authData, Tail(keys), selectedKey, answers, acc)
             ELSE ClaudeLoop(authData, Tail(keys), selectedKey, answers,
                     Push(acc, fetchClaudeProfileAndUsage(entry.access, key, answers[key]),
                          key = selectedKey, key))

\* The keychain snapshot is pushed as returned: neither selected nor authKey.
fetchClaudeUsage(authData, keychainToken, answers) ==
    LET anthropicKeys == getAuthEntriesForProvider(authData, Anthropic)
        selectedKey   == getSelectedAuthKey(authData, Anthropic)
        first == IF Len(anthropicKeys) = 0 /\ keychainToken # ""
                 THEN LET r == fetchClaudeProfileAndUsage(keychainToken, Anthropic, answers[Anthropic])
                      IN  Push(NoSnapshots, r, r.snap.selected, r.snap.authKey)
                 ELSE NoSnapshots
    IN  OrNone(ClaudeLoop(authData, anthropicKeys, selectedKey, answers, first),
               "anthropic", <<"claude">>, "no credentials")

RECURSIVE CodexLoop(_, _, _, _, _)
CodexLoop(authData, keys, selectedKey, answers, acc) ==
    IF keys = <<>> \/ acc.thrown THEN acc
    ELSE LET key   == Head(keys)
             entry == ObjGet(authData, key)
         IN  IF entry.access = ""
             THEN CodexLoop(authData, Tail(keys), selectedKey, answers, acc)
             ELSE CodexLoop(authData, Tail(keys), selectedKey, answers,
                     Push(acc, fetchCodexProfileAndUsage(authData, entry.access, key, answers[key]),
                          key = selectedKey, key))

\* accessToken is the model registry's token or the one of ~/.codex/auth.json.
fetchCodexUsage(authData, accessToken, answers) ==
    LET codexKeys   == getAuthEntriesForProvider(authData, OpenaiCodex)
        selectedKey == getSelectedAuthKey(authData, OpenaiCodex)
        first == IF Len(codexKeys) = 0 /\ accessToken # ""
                 THEN Push(NoSnapshots,
                           fetchCodexProfileAndUsage(authData, accessToken, OpenaiCodex, answers[OpenaiCodex]),
                           TRUE, OpenaiCodex)
                 ELSE NoSnapshots
    IN  OrNone(CodexLoop(authData, codexKeys, selectedKey, answers, first),
               "codex", <<"codex">>, "no credentials")

RECURSIVE ZaiLoop(_, _, _, _, _)
ZaiLoop(authData, keys, selectedKey, answers, acc) ==
    IF keys = <<>> \/ acc.thrown THEN acc
    ELSE LET key   == Head(keys)
             entry == ObjGet(authData, key)
         IN  IF entry.key = ""
             THEN ZaiLoop(authData, Tail(keys), selectedKey, answers, acc)
             ELSE ZaiLoop(authData, Tail(keys), selectedKey, answers,
                     Push(acc, fetchZaiProfileAndUsage(entry.key, key, answers[key]),
                          key = selectedKey, key))

fetchZaiUsage(authData, envApiKey, answers) ==
    LET zaiKeys     == getAuthEntriesForProvider(authData, Zai)
        selectedKey == getSelectedAuthKey(authData, Zai)
        first == IF Len(zaiKeys) = 0 /\ envApiKey # ""
                 THEN Push(NoSnapshots, fetchZaiProfileAndUsage(envApiKey, Zai, answers[Zai]), TRUE, Zai)
                 ELSE NoSnapshots
    IN  OrNone(ZaiLoop(authData, zaiKeys, selectedKey, answers, first),
               "zai", <<"z.ai">>, "no api key")

\* loadAuthData of usage.ts: the parsed file, {} when it cannot be parsed.
loadAuthData(file) == IF file = Corrupt THEN <<>> ELSE file

(***************************************************************************)
(* The usage panel (UsageComponent).                                       *)
(***************************************************************************)
MaxPerProvider == 2

PanelProviders == {Anthropic, OpenaiCodex, Zai}

\* The accounts of one provider in auth.json: Z.AI entries hold an API key.
ProviderEntries(p, n, kinds) ==
    [i \in 1..n |-> [k |-> IF i = 1 THEN p ELSE NumberedKey(p, i - 1),
                     v |-> MkEntry(IF p = Zai THEN "key" ELSE kinds[i], i)]]

PanelStore(count, kinds) ==
    ProviderEntries(Anthropic, count[Anthropic], kinds)
    \o ProviderEntries(OpenaiCodex, count[OpenaiCodex], kinds)
    \o ProviderEntries(Zai, count[Zai], kinds)

\* The keys a helper is called for: the entries with a token and, for a
\* provider without entries, its credential from outside auth.json.
CalledKeys(file, env, p) ==
    LET keys == getAuthEntriesForProvider(file, p)
    IN  {keys[i] : i \in {j \in 1..Len(keys) :
                            IF p = Zai THEN ObjGet(file, keys[j]).key # ""
                            ELSE ObjGet(file, keys[j]).access # ""}}
        \cup (IF Len(keys) = 0 /\ p \in env THEN {p} ELSE {})

AnswersOf(p) ==
    IF p = Zai THEN [u : ZaiCalls, p : {"none"}] ELSE [u : UsageCalls, p : ProfileCalls]

\* The answers of the providers that are not looked at closely: the account's
\* usage with its profile, or no answer in time.
PlainAnswersOf(p) ==
    {[u |-> "ok", p |-> IF p = Zai THEN "none" ELSE "full"], [u |-> "abort", p |-> "none"]}

\* fetchProviderStatus: the indicator of an answered status page without an
\* incident. The indicator only colours a row.
StatusOutcomes == {"none"}

InitPanel ==
    /\ mode = "panel"
    /\ IdleReorg
    /\ IdleUrg
    /\ IdleOther
    /\ IdleFmt
    /\ IdleLate
    /\ cmd = "none" /\ hPc = "idle" /\ hAuth = <<>> /\ pending = {}
    /\ quotaMap = <<>> /\ profileMap = <<>> /\ bestKey = <<>> /\ items = <<>>
    /\ notice = "none"
    /\ \E count \in [PanelProviders -> 0..MaxPerProvider],
          kinds \in [1..MaxPerProvider -> SelectKinds],
          corrupt \in BOOLEAN :
          /\ count[Zai] <= 1
          /\ kinds[1] = "access"
          /\ corrupt => \A p \in PanelProviders : count[p] = 0
          /\ authFile = IF corrupt THEN Corrupt ELSE PanelStore(count, kinds)
          /\ envCreds \in SUBSET {p \in PanelProviders : count[p] = 0}
          /\ LET called(p) == CalledKeys(authFile, envCreds, p)
                 all       == called(Anthropic) \cup called(OpenaiCodex) \cup called(Zai)
                 ProviderOfKey(k) == CHOOSE p \in PanelProviders : k \in called(p)
             IN  \* one call is looked at closely, the others answer plainly
                 \/ all = {} /\ net = <<>>
                 \/ \E focus \in all :
                    \E closely \in AnswersOf(ProviderOfKey(focus)),
                       plainly \in [all \ {focus} -> {"ok", "abort"}] :
                       net = [k \in all |->
                                IF k = focus THEN closely
                                ELSE CHOOSE o \in PlainAnswersOf(ProviderOfKey(k)) :
                                        o.u = plainly[k]]
    /\ settled = <<>> /\ usages = <<>> /\ loading = TRUE /\ cursor = 0
    /\ selectableIndices = <<>> /\ switching = FALSE /\ closed = FALSE

\* Promise.race([p, fallback after USAGE_RACE_TIMEOUT_MS])
WithTimeout(r, fallback) ==
    IF r.elapsed > USAGE_RACE_TIMEOUT_MS THEN <<fallback>> ELSE r.snapshots

\* The race rejects when the fetcher threw before the timer fired.
Rejected(r) == r.thrown /\ r.elapsed <= USAGE_RACE_TIMEOUT_MS

\* for (const s of snapshots) s.status = status
WithStatus(snapshots, status) ==
    [i \in 1..Len(snapshots) |-> [snapshots[i] EXCEPT !.status = status]]

\* A filter that would hide every snapshot without windows and plan that
\* carries an error.
ShownUnlessError(u) ==
    \/ Len(u.windows) > 0
    \/ u.plan # ""
    \/ u.error = ""

\* allUsages.filter(...)
Shown(u) ==
    \/ Len(u.windows) > 0
    \/ u.plan # ""
    \/ u.error \notin {"no api key", "no credentials", "no token"}

RECURSIVE ProviderOrder(_, _)
\* The keys of providerGroups, in insertion order.
ProviderOrder(us, seen) ==
    IF us = <<>> THEN <<>>
    ELSE IF Head(us).provider \in seen THEN ProviderOrder(Tail(us), seen)
    ELSE <<Head(us).provider>> \o ProviderOrder(Tail(us), seen \cup {Head(us).provider})

\* providerGroups.get(p): the 0-based indices of p's rows.
GroupOf(us, p) ==
    LET idx == [i \in 1..Len(us) |-> i - 1]
    IN  SelectSeq(idx, LAMBDA i : us[i + 1].provider = p)

RECURSIVE SelectableFrom(_, _)
\* The rows that are not selected, of the providers with more than one row.
SelectableFrom(us, order) ==
    IF order = <<>> THEN <<>>
    ELSE LET indices == GroupOf(us, Head(order))
         IN  (IF Len(indices) > 1
              THEN SelectSeq(indices, LAMBDA i : ~us[i + 1].selected)
              ELSE <<>>)
             \o SelectableFrom(us, Tail(order))

Credential(env, p) == IF p \in env THEN "token" ELSE ""

\* load(): the three fetchers and the two status calls have settled.
LoadComplete ==
    /\ mode = "panel" /\ loading /\ settled = <<>>
    /\ LET authData == loadAuthData(authFile)
           claude   == fetchClaudeUsage(authData, Credential(envCreds, Anthropic), net)
           codex    == fetchCodexUsage(authData, Credential(envCreds, OpenaiCodex), net)
           zai      == fetchZaiUsage(authData, Credential(envCreds, Zai), net)
       IN  /\ settled' = [anthropic |-> claude, codex |-> codex, zai |-> zai]
           /\ IF Rejected(claude) \/ Rejected(codex) \/ Rejected(zai)
              THEN UNCHANGED <<usages, loading, cursor, selectableIndices>>
              ELSE \E claudeStatus \in StatusOutcomes, codexStatus \in StatusOutcomes :
                     LET claudeSnapshots == WithTimeout(claude,
                             Snapshot("anthropic", <<"claude">>, <<>>, "", "timeout"))
                         codexSnapshots == WithTimeout(codex,
                             Snapshot("codex", <<"codex">>, <<>>, "", "timeout"))
                         zaiSnapshots == WithTimeout(zai,
                             Snapshot("zai", <<"z.ai">>, <<>>, "", "timeout"))
                         allUsages == WithStatus(claudeSnapshots, claudeStatus)
                                      \o WithStatus(codexSnapshots, codexStatus)
                                      \o zaiSnapshots
                         shown == SelectSeq(allUsages, Shown)
                         selectable == SelectableFrom(shown, ProviderOrder(shown, {}))
                     IN  /\ usages' = shown
                         /\ selectableIndices' = selectable
                         /\ cursor' = IF Len(selectable) > 0 THEN 0 ELSE cursor
                         /\ loading' = FALSE
    /\ shownFrom' = loadAuthData(authFile)
    /\ UNCHANGED <<mode, reorgVars, urgVars, otherVars, fmtVars, laterVars, selVars, envCreds, net, switching, closed>>

\* handleInput(escape)
Escape ==
    /\ mode = "panel" /\ ~closed
    /\ closed' = TRUE
    /\ UNCHANGED <<mode, reorgVars, urgVars, otherVars, fmtVars, lateVars, selVars, envCreds, net, settled, usages,
                   loading, cursor, selectableIndices, switching>>

\* handleInput(up) / handleInput(k)
CursorUp ==
    /\ mode = "panel" /\ ~closed /\ Len(selectableIndices) > 0
    /\ cursor' = IF cursor > 0 THEN cursor - 1 ELSE cursor
    /\ UNCHANGED <<mode, reorgVars, urgVars, otherVars, fmtVars, lateVars, selVars, envCreds, net, settled, usages,
                   loading, selectableIndices, switching, closed>>

\* handleInput(down) / handleInput(j)
CursorDown ==
    /\ mode = "panel" /\ ~closed /\ Len(selectableIndices) > 0
    /\ cursor' = IF cursor < Len(selectableIndices) - 1 THEN cursor + 1 ELSE cursor
    /\ UNCHANGED <<mode, reorgVars, urgVars, otherVars, fmtVars, lateVars, selVars, envCreds, net, settled, usages,
                   loading, selectableIndices, switching, closed>>

\* usage.provider === "anthropic" ? "anthropic" : ... "codex" ? "openai-codex" : ...
PrefixOf(provider) ==
    IF provider = "anthropic" THEN Anthropic
    ELSE IF provider = "codex" THEN OpenaiCodex ELSE Zai

\* What switchAccount can end with: it returns, saveAuth throws (the file
\* cannot be written), or authStorage.reload() throws after the save.
SwitchOutcomes == {"ok", "saveThrows", "reloadThrows"}

\* A switchAccount that would clear its flag without calling onClose.
switchAccountNoClose(file, usage, outcome) ==
    LET updated == reorganizeKeys(loadAuthData(file), usage.authKey, PrefixOf(usage.provider))
    IN  [file      |-> IF outcome = "saveThrows" THEN file ELSE updated,
         switching |-> outcome # "ok",
         closed    |-> FALSE]

\* switchAccount for a usage with an authKey. It has no await and no try: the
\* flag is set, the file loaded, reorganized and saved, the host's storage
\* reloaded, the flag cleared and onClose called; a throw ends it where it
\* stands, the flag set and the panel open.
switchAccount(file, usage, outcome) ==
    LET updated == reorganizeKeys(loadAuthData(file), usage.authKey, PrefixOf(usage.provider))
    IN  [file      |-> IF outcome = "saveThrows" THEN file ELSE updated,
         switching |-> outcome # "ok",
         closed    |-> outcome = "ok"]

\* handleInput(enter): switchAccount of the row under the cursor unless it is
\* the selected one.
Enter ==
    /\ mode = "panel" /\ ~closed /\ Len(selectableIndices) > 0
    /\ LET idx   == selectableIndices[cursor + 1]
           usage == usages[idx + 1]
       IN  IF usage.selected \/ usage.authKey = NoKey
           THEN UNCHANGED <<authFile, switching, closed>>
           ELSE \E outcome \in SwitchOutcomes :
                  LET r == switchAccount(authFile, usage, outcome)
                  IN  /\ authFile' = r.file
                      /\ switching' = r.switching
                      /\ closed' = r.closed
    /\ UNCHANGED <<mode, reorgVars, urgVars, otherVars, fmtVars, lateVars, handlerVars, envCreds, net, settled, usages,
                   loading, cursor, selectableIndices>>

NextPanel ==
    \/ LoadComplete
    \/ Escape
    \/ CursorUp
    \/ CursorDown
    \/ Enter

SpecPanel == InitPanel /\ [][NextPanel]_vars

(***************************************************************************)
(* Properties of the fetchers and of the loaded list.                      *)
(***************************************************************************)
Loaded == mode = "panel" /\ settled # <<>>

ProviderName(p) == IF p = Anthropic THEN "anthropic" ELSE IF p = OpenaiCodex THEN "codex" ELSE "zai"

\* The keys a fetcher calls its helper for, in the order of the calls.
CallsOf(p) ==
    LET keys == getAuthEntriesForProvider(authFile, p)
    IN  IF Len(keys) = 0 THEN (IF p \in envCreds THEN <<p>> ELSE <<>>)
        ELSE SelectSeq(keys, LAMBDA k : k \in CalledKeys(authFile, envCreds, p))

\* The usage call of key k failed: a status that is not 2xx, a rejected or
\* aborted fetch, a body that cannot be read or parsed, or the shared timer
\* running out while the profile call hangs.
CallFailed(p, k) ==
    \/ net[k].u \in {"http", "denied", "neterr", "abort", "badjson", "stall", "apierr"}
    \/ /\ p # Zai /\ net[k].p = "abort"
       /\ ~(p = OpenaiCodex /\ ObjGet(authFile, k).email # "")

\* C9: every usage fetcher returns, for every outcome of its network calls,
\* one snapshot per credential it called for (one "no credentials" snapshot
\* when it called for none); a failed call gives a snapshot with an error
\* string and no windows, and nothing is thrown.
FetchersNeverThrow ==
    Loaded =>
        \A p \in PanelProviders :
            LET r     == settled[ProviderName(p)]
                calls == CallsOf(p)
            IN  /\ ~r.thrown
                /\ Len(r.snapshots) = IF calls = <<>> THEN 1 ELSE Len(calls)
                /\ calls = <<>> => r.snapshots[1].error # "" /\ r.snapshots[1].windows = <<>>
                /\ \A i \in 1..Len(calls) :
                      /\ r.snapshots[i].provider = ProviderName(p)
                      /\ CallFailed(p, calls[i]) =>
                            /\ r.snapshots[i].error # ""
                            /\ r.snapshots[i].windows = <<>>
                      /\ ~CallFailed(p, calls[i]) => r.snapshots[i].error = ""

\* An Anthropic usage call got no answer within FETCH_TIMEOUT_MS: the fetcher
\* returned, for that credential, a snapshot with the abort's text as error
\* and no windows.
FetchersNeverThrowWitness ==
    /\ Loaded
    /\ \E i \in 1..Len(CallsOf(Anthropic)) :
          /\ net[CallsOf(Anthropic)[i]].u = "abort"
          /\ ~settled.anthropic.thrown
          /\ settled.anthropic.snapshots[i].error = AbortText
          /\ settled.anthropic.snapshots[i].windows = <<>>

RowsOf(provider) == SelectSeq(usages, LAMBDA u : u.provider = provider)

Unstatused(rows) == [i \in 1..Len(rows) |-> [rows[i] EXCEPT !.status = ""]]

\* C10: when every Anthropic usage call times out while the Codex and Z.AI
\* calls succeed, the loaded list holds the Codex and Z.AI snapshots as
\* fetched and exactly one Anthropic snapshot, whose error is "timeout".
AnthropicTimeoutIsolated ==
    (/\ Loaded /\ ~loading
     /\ CallsOf(Anthropic) # <<>>
     /\ \A i \in 1..Len(CallsOf(Anthropic)) : net[CallsOf(Anthropic)[i]].u = "abort"
     /\ \A p \in {OpenaiCodex, Zai} :
           /\ CallsOf(p) # <<>>
           /\ \A i \in 1..Len(CallsOf(p)) : net[CallsOf(p)[i]].u = "ok")
    => /\ Unstatused(RowsOf("codex")) = settled.codex.snapshots
       /\ RowsOf("zai") = settled.zai.snapshots
       /\ Len(RowsOf("anthropic")) = 1
       /\ RowsOf("anthropic")[1].error = "timeout"

\* allUsages of load(), before the statuses are set and the filter applied.
AllUsages ==
    WithTimeout(settled.anthropic, Snapshot("anthropic", <<"claude">>, <<>>, "", "timeout"))
    \o WithTimeout(settled.codex, Snapshot("codex", <<"codex">>, <<>>, "", "timeout"))
    \o WithTimeout(settled.zai, Snapshot("zai", <<"z.ai">>, <<>>, "", "timeout"))

\* A snapshot that says nothing but that no credential is there.
NoCredentialOnly(u) ==
    /\ Len(u.windows) = 0
    /\ u.plan = ""
    /\ u.error \in {"no credentials", "no api key"}

CodexEmailCachedAfterLookup ==
    (Loaded /\ ~closed /\ ~switching) =>
        \A i \in 1..Len(CallsOf(OpenaiCodex)) :
            LET k == CallsOf(OpenaiCodex)[i]
            IN  (ObjHas(authFile, k) /\ net[k].p = "full") =>
                    loadCodexCachedEmailForKey(authFile, k) # ""

(***************************************************************************)
(* The panel as a state machine.                                           *)
(***************************************************************************)
\* Where the panel stands: closed once onClose was called, else Loading
\* while the load runs, Switching while the flag is set, Ready otherwise.
Phase ==
    IF closed THEN "closed"
    ELSE IF loading THEN "Loading"
    ELSE IF switching THEN "Switching"
    ELSE "Ready"

PhaseStep == <<Phase, Phase'>>

\* The moves the panel is said to make.
StatedMoves == {<<"Loading", "Ready">>, <<"Ready", "Switching">>,
                <<"Switching", "closed">>, <<"Ready", "closed">>}

\* C17 as stated: the panel moves only along Loading -> Ready -> Switching ->
\* closed or Loading -> Ready -> closed; it never closes while Loading, never
\* enters Switching before the load has finished, never returns from
\* Switching to Ready.
PanelMovesAsStated ==
    [][mode = "panel" => (Phase' = Phase \/ PhaseStep \in StatedMoves)]_vars

\* C17: the panel moves only along Loading -> Ready -> Switching -> closed,
\* Loading -> Ready -> closed or Loading -> closed: escape closes it in every
\* state, also while Loading; it never enters Switching before the load has
\* finished and never returns from Switching to Ready.
PanelMovesOrEscapesLoading ==
    [][mode = "panel" =>
          \/ Phase' = Phase
          \/ PhaseStep \in StatedMoves
          \/ PhaseStep = <<"Loading", "closed">> /\ Escape]_vars

\* Escape was pressed before the load had finished.
PanelMovesOrEscapesLoadingWitness == mode = "panel" /\ closed /\ loading

\* C18: switchAccount runs to its end within the enter key's event, whatever
\* saving the file and reloading the host's storage end with: between two
\* events the switching flag is never set while the panel is open.
SwitchingAlwaysCloses == mode = "panel" => ~(switching /\ ~closed)

(***************************************************************************)
(* formatReset, usage.ts and codex-select.ts.  A text is the sequence of   *)
(* its pieces: decimal digits, unit letters, a blank, a month name.        *)
(***************************************************************************)
RECURSIVE NumToks(_)
\* `${n}` of a natural number
NumToks(n) == IF n < 10 THEN <<DigitTok[n]>>
              ELSE NumToks(n \div 10) \o <<DigitTok[n % 10]>>

Blank == <<" ">>

\* Intl.DateTimeFormat("en-US", {month: "short", day: "numeric"}).format of
\* an instant of the first two months after the epoch, in UTC.
MonthDay(ms) ==
    LET dayIndex == ms \div MsPerDay
    IN  IF dayIndex < 31 THEN <<"Jan">> \o Blank \o NumToks(dayIndex + 1)
        ELSE <<"Feb">> \o Blank \o NumToks(dayIndex - 30)

\* The part the two copies share: from diffMs to the text below a day.
RelativeBelowDay(diffMins) ==
    LET hours == diffMins \div 60
        mins  == diffMins % 60
    IN  IF diffMins < 60 THEN NumToks(diffMins) \o <<"m">>
        ELSE IF mins > 0
        THEN NumToks(hours) \o <<"h">> \o Blank \o NumToks(mins) \o <<"m">>
        ELSE NumToks(hours) \o <<"h">>

DaysHours(hours) ==
    NumToks(hours \div 24) \o <<"d">> \o Blank \o NumToks(hours % 24) \o <<"h">>

\* formatReset(date: Date) of usage.ts; dateMs is date.getTime().
formatResetUsage(dateMs, nowMs) ==
    LET diffMs   == dateMs - nowMs
        diffMins == diffMs \div 60000
        hours    == diffMins \div 60
        days     == hours \div 24
    IN  IF diffMs < 0 THEN <<"now">>
        ELSE IF hours < 24 THEN RelativeBelowDay(diffMins)
        ELSE IF days < 7 THEN DaysHours(hours)
        ELSE MonthDay(dateMs)

\* formatReset(resetAt: number) of codex-select.ts; resetAt is epoch seconds.
formatResetCodex(resetSeconds, nowMs) ==
    LET diffMs   == resetSeconds * 1000 - nowMs
        diffMins == diffMs \div 60000
        hours    == diffMins \div 60
    IN  IF diffMs < 0 THEN <<"now">>
        ELSE IF hours < 24 THEN RelativeBelowDay(diffMins)
        ELSE DaysHours(hours)

\* The resets formatted: every minute of the first two hours, the minutes
\* around one day, 25 hours, around seven days and 8 days, each on the minute
\* and 59 seconds later, and a reset that has passed.
MinuteOffsets == (0..125) \cup {1439, 1440, 1441, 1500, 10079, 10080, 11520}

SecondOffsets == {m * 60 + e : m \in MinuteOffsets, e \in {0, 59}} \cup {0 - 1}

InitFormat ==
    /\ mode = "format"
    /\ IdleLate
    /\ IdleReorg
    /\ IdleSel
    /\ IdlePanel
    /\ IdleOther
    /\ now \in Nows /\ usageA = <<>> /\ usageB = <<>> /\ scoreA = <<>> /\ scoreB = <<>>
    /\ resetAt \in {now \div 1000 + o : o \in SecondOffsets}
    /\ fUsage = <<>> /\ fCodex = <<>>

\* usage.ts: formatReset(new Date(resetAt * 1000)) for a Codex window
FormatUsage ==
    /\ mode = "format" /\ fUsage = <<>>
    /\ fUsage' = formatResetUsage(resetAt * 1000, now)
    /\ UNCHANGED <<mode, reorgVars, urgVars, selVars, panelVars, otherVars, lateVars, resetAt, fCodex>>

\* codex-select.ts: formatReset(pw.reset_at)
FormatCodex ==
    /\ mode = "format" /\ fCodex = <<>>
    /\ fCodex' = formatResetCodex(resetAt, now)
    /\ UNCHANGED <<mode, reorgVars, urgVars, selVars, panelVars, otherVars, lateVars, resetAt, fUsage>>

NextFormat == FormatUsage \/ FormatCodex

SpecFormat == InitFormat /\ [][NextFormat]_vars

\* Whole minutes from the clock's reading to the reset.
MinutesAway == (resetAt * 1000 - now) \div 60000

Formatted == mode = "format" /\ fUsage # <<>> /\ fCodex # <<>>

\* The text is a month and a day, not a distance in time.
CalendarForm(text) == Head(text) \in {"Jan", "Feb"}

\* C14: each copy of formatReset gives "59m" for a reset 59 minutes away,
\* "1h" for 60 minutes, "1d 1h" for 25 hours, and the month/day form, not a
\* relative text, for 8 days.
FormatResetBoundaries ==
    Formatted => \A text \in {fUsage, fCodex} :
        /\ MinutesAway = 59 => text = <<"5", "9", "m">>
        /\ MinutesAway = 60 => text = <<"1", "h">>
        /\ MinutesAway = 25 * 60 => text = <<"1", "d", " ", "1", "h">>
        /\ MinutesAway = 8 * 24 * 60 => CalendarForm(text)

(***************************************************************************)
(* loadAuth of codex-select.ts over the life of one file: the loader is    *)
(* called by the codex-select handler (349, 475) and by updateUsageWidget  *)
(* (559, 581); between two calls the handler may save a reorganized store. *)
(***************************************************************************)
MaxLoads == 3

LoaderKeys == {Codex, Codex \o Dash \o <<"1">>, Codex \o <<"x">>,
               OpenaiCodex, NumberedKey(OpenaiCodex, 1), Anthropic}

RECURSIVE LoaderStoresOfLen(_)
LoaderStoresOfLen(n) ==
    IF n = 0 THEN {<<>>}
    ELSE {Append(s, [k |-> k, v |-> MkEntry("access", n)]) :
            s \in LoaderStoresOfLen(n - 1), k \in LoaderKeys}

InitLoader ==
    /\ mode = "loader"
    /\ IdleReorg
    /\ IdleUrg
    /\ IdlePanel
    /\ IdleOther
    /\ IdleFmt
    /\ authFile \in UNION {{s \in LoaderStoresOfLen(n) : DistinctKeys(s)} : n \in 0..MaxKeys}
    /\ cmd = "none" /\ hPc = "idle" /\ hAuth = <<>> /\ pending = {}
    /\ quotaMap = <<>> /\ profileMap = <<>> /\ bestKey = <<>> /\ items = <<>>
    /\ notice = "none"
    /\ IdleLoader
    /\ IdleCost
    /\ IdleKilo
    /\ IdleStat
    /\ shownFrom = <<>>

\* const auth = loadAuth()
LoadAuth ==
    /\ mode = "loader" /\ lLoads < MaxLoads
    /\ LET loaded == loadAuthCodex(authFile)
       IN  /\ authFile' = loaded.file
           /\ lReturned' = loaded.auth
           /\ lSaves' = IF migrateCodexKeys(authFile).migrated THEN lSaves + 1 ELSE lSaves
    /\ lLoads' = lLoads + 1
    /\ UNCHANGED <<mode, reorgVars, urgVars, handlerVars, panelVars, otherVars, fmtVars, costVars, kiloVars,
                   statVars, shownFrom>>

\* codex-select handler: saveAuth(reorganizeKeys(auth, selectedKey)) with the
\* store the handler loaded.
SaveReorganized ==
    /\ mode = "loader" /\ lLoads > 0 /\ lReturned = authFile
    /\ \E selectedKey \in KeySet(getCodexEntries(lReturned)) :
          /\ reorganizeKeysCodex(lReturned, selectedKey) # authFile
          /\ authFile' = saveAuth(authFile, reorganizeKeysCodex(lReturned, selectedKey))
    /\ UNCHANGED <<mode, reorgVars, urgVars, handlerVars, panelVars, otherVars, fmtVars, lateVars>>

NextLoader == LoadAuth \/ SaveReorganized

SpecLoader == InitLoader /\ [][NextLoader]_vars

HasCodexKeys(a) == \E i \in 1..Len(a) : StartsWith(a[i].k, Codex)

HasOpenaiCodexKeys(a) == \E i \in 1..Len(a) : StartsWith(a[i].k, OpenaiCodex)

\* Every codex<suffix> key of before is openai-codex<suffix> in after with
\* its value, every other key is there with its value, and nothing else is.
Rewritten(before, after) ==
    /\ Len(after) = Len(before)
    /\ \A i \in 1..Len(before) :
          LET k == before[i].k
          IN  IF StartsWith(k, Codex)
              THEN /\ ~ObjHas(after, k)
                   /\ ObjHas(after, OpenaiCodex \o Tail(k))
                   /\ ObjGet(after, OpenaiCodex \o Tail(k)) = before[i].v
              ELSE ObjHas(after, k) /\ ObjGet(after, k) = before[i].v

\* C21 as stated: the first loadAuth of a store with keys starting with codex
\* rewrites every codex<suffix> key to openai-codex<suffix>, value unchanged,
\* other keys unchanged, and saves; every other loadAuth writes nothing.
MigratesFirstLoadOfCodexKeys ==
    [][LoadAuth =>
        IF lLoads = 0 /\ HasCodexKeys(authFile)
        THEN Rewritten(authFile, authFile') /\ lReturned' = authFile' /\ lSaves' = 1
        ELSE authFile' = authFile /\ lSaves' = lSaves]_vars

\* C21: the migration runs on a load of a store that has keys starting with
\* codex and no key starting with openai-codex, rewriting every
\* codex<suffix> key; a store with an openai-codex key is returned as it is,
\* its codex keys kept; after a migrating load no loadAuth writes again.
MigratesOnceUnlessOpenaiCodex ==
    [][LoadAuth =>
        IF HasCodexKeys(authFile) /\ ~HasOpenaiCodexKeys(authFile)
        THEN /\ Rewritten(authFile, authFile') /\ lReturned' = authFile'
             /\ lSaves = 0 /\ lSaves' = 1
        ELSE authFile' = authFile /\ lReturned' = authFile /\ lSaves' = lSaves]_vars

MigratesOnceUnlessOpenaiCodexWitness ==
    /\ mode = "loader" /\ lLoads = MaxLoads /\ lSaves = 1
    /\ ObjHas(authFile, NumberedKey(OpenaiCodex, 1))
    /\ ~HasCodexKeys(authFile)

(***************************************************************************)
(* The usage panel while another command rewrites the file: /claude-select *)
(* or /codex-select of this or another pi process promotes an account      *)
(* between the panel's load and the user's enter.                          *)
(***************************************************************************)
\* The panel of a store with two Anthropic accounts whose calls are all
\* answered; the Codex accounts vary.
InitSwitch ==
    /\ InitPanel
    /\ authFile # Corrupt
    /\ Len(getAuthEntriesForProvider(authFile, Anthropic)) = MaxPerProvider
    /\ Len(getAuthEntriesForProvider(authFile, Zai)) = 0
    /\ envCreds = {}
    /\ \A k \in DOMAIN net : net[k].u = "ok"

\* claude-select.ts 286-287 and codex-select.ts 473-474 with a store loaded
\* after the panel's load: the picked account becomes the canonical one.
OtherReorganize ==
    /\ mode = "panel" /\ ~loading /\ ~closed /\ ~switching
    /\ \E p \in Providers :
       \E selectedKey \in KeySet(IF p = Anthropic THEN getAnthropicEntries(authFile)
                                 ELSE getCodexEntries(authFile)) :
          /\ selectedKey # p
          /\ authFile' = saveAuth(authFile,
                                  IF p = Anthropic
                                  THEN reorganizeKeysClaude(authFile, selectedKey)
                                  ELSE reorganizeKeysCodex(authFile, selectedKey))
    /\ UNCHANGED <<mode, reorgVars, urgVars, otherVars, fmtVars, lateVars, handlerVars, panelVars>>

NextSwitch ==
    \/ LoadComplete
    \/ Escape
    \/ CursorUp
    \/ CursorDown
    \/ Enter
    \/ OtherReorganize

SpecSwitch == InitSwitch /\ [][NextSwitch]_vars

\* The row under the cursor.
CursorUsage == usages[selectableIndices[cursor + 1] + 1]

\* C22: when the panel's first switchAccount has run to its end, the
\* canonical key of the row's provider holds the credential the row was
\* fetched with, whatever was written to the file since the panel loaded it.
SwitchPromotesShownCredential ==
    [][(Enter /\ ~switching /\ closed') =>
        ObjGet(authFile', PrefixOf(CursorUsage.provider))
            = ObjGet(shownFrom, CursorUsage.authKey)]_vars

(***************************************************************************)
(* updateUsageWidget while /codex-select runs: the hooks of session_start  *)
(* and model_select are async and nothing keeps a command from saving      *)
(* while an invocation awaits its fetches or its email lookup.             *)
(***************************************************************************)
InitWidget ==
    /\ InitSelect
    /\ cmd = "codex"
    /\ authFile # Corrupt

\* codex-select handler 473-474 while the widget awaits: the account the
\* user picked becomes "openai-codex", the others are renumbered.
CodexSelectSaves ==
    /\ mode = "select" /\ hPc = "start" /\ wPc \in {"fetching", "lookup"}
    /\ LET loaded == loadAuthCodex(authFile)
       IN  \E selectedKey \in KeySet(getCodexEntries(loaded.auth)) :
              /\ selectedKey # OpenaiCodex
              /\ authFile' = saveAuth(loaded.file, reorganizeKeysCodex(loaded.auth, selectedKey))
    /\ UNCHANGED <<mode, reorgVars, urgVars, panelVars, otherVars, fmtVars, lateVars, handlerVars>>

NextWidget ==
    \/ WidgetStart
    \/ WidgetFetched
    \/ WidgetLookup
    \/ CodexSelectSaves

SpecWidget == InitWidget /\ [][NextWidget]_vars

\* b is a but for the email of its "openai-codex" entry.
CanonicalEmailOnly(a, b) ==
    /\ ObjKeys(a) = ObjKeys(b)
    /\ \A i \in 1..Len(a) :
          IF a[i].k = OpenaiCodex
          THEN [a[i].v EXCEPT !.email = b[i].v.email] = b[i].v
          ELSE a[i].v = b[i].v

\* C23: the save that ends updateUsageWidget changes nothing in the file but
\* the email of the "openai-codex" entry; the credential stored under that
\* key when the save is made stays.
WidgetCachesEmailOnly ==
    [][WidgetLookup => CanonicalEmailOnly(authFile, authFile')]_vars

(***************************************************************************)
(* The cost panel (cost.ts): scanSessionLogs over the session files, the   *)
(* CostComponent with its tabs and cursor, and deleteProviderFromSessions. *)
(* A line of a session file is an assistant message with its provider, its *)
(* age in days and its cost, some other parsable or unparsable line, or a  *)
(* blank line.                                                             *)
(***************************************************************************)
MaxFiles == 1

MaxLines == 2

MaxInFlight == 2

MaxDeletes == 2

OtherLine == [t |-> "other", provider |-> "", age |-> 0, cost |-> 0]

BlankLine == [t |-> "blank", provider |-> "", age |-> 0, cost |-> 0]

AssistantLine(provider, age, cost) ==
    [t |-> "assistant", provider |-> provider, age |-> age, cost |-> cost]

LineChoices == {AssistantLine("anthropic", 1, 2), AssistantLine("openai", 20, 3),
                AssistantLine("google", 100, 1), OtherLine, BlankLine}

RECURSIVE FilesOfLines(_)
FilesOfLines(n) ==
    IF n = 0 THEN {<<>>}
    ELSE {Append(f, l) : f \in FilesOfLines(n - 1), l \in LineChoices}

SessionFiles == UNION {FilesOfLines(n) : n \in 0..MaxLines}

\* tabs[i].days; null ("all") is AllTime
AllTime == 0 - 1

Tabs == <<7, 30, AllTime>>

\* providerCosts.get(provider) updated, or set when the provider is new
AddCost(acc, provider, cost) ==
    IF \E i \in 1..Len(acc) : acc[i].provider = provider
    THEN [i \in 1..Len(acc) |->
            IF acc[i].provider = provider
            THEN [acc[i] EXCEPT !.totalCost = @ + cost, !.totalRequests = @ + 1]
            ELSE acc[i]]
    ELSE Append(acc, [provider |-> provider, totalCost |-> cost, totalRequests |-> 1])

RECURSIVE scanSessionFile(_, _, _)
\* The assistant messages not older than the cutoff are added up by provider.
scanSessionFile(lines, daysBack, providerCosts) ==
    IF lines = <<>> THEN providerCosts
    ELSE LET entry == Head(lines)
         IN  IF entry.t # "assistant" \/ (daysBack # AllTime /\ entry.age > daysBack)
             THEN scanSessionFile(Tail(lines), daysBack, providerCosts)
             ELSE scanSessionFile(Tail(lines), daysBack,
                                  AddCost(providerCosts, entry.provider, entry.cost))

RECURSIVE ScanFiles(_, _, _)
ScanFiles(files, daysBack, providerCosts) ==
    IF files = <<>> THEN providerCosts
    ELSE ScanFiles(Tail(files), daysBack, scanSessionFile(Head(files), daysBack, providerCosts))

RECURSIVE SortByCost(_, _)
\* .sort((a, b) => b.totalCost - a.totalCost): stable, highest cost first
SortByCost(rest, sorted) ==
    IF rest = <<>> THEN sorted
    ELSE LET x    == Head(rest)
             ahead == SelectSeq(sorted, LAMBDA y : y.totalCost >= x.totalCost)
             after == SelectSeq(sorted, LAMBDA y : y.totalCost < x.totalCost)
         IN  SortByCost(Tail(rest), ahead \o <<x>> \o after)

scanSessionLogs(files, daysBack) == SortByCost(ScanFiles(files, daysBack, <<>>), <<>>)

\* The lines deleteProviderFromSessions keeps of one file, and whether it
\* dropped a message of the provider.
KeptLines(lines, provider) ==
    SelectSeq(lines, LAMBDA l : l.t # "blank" /\ ~(l.t = "assistant" /\ l.provider = provider))

Modified(lines, provider) ==
    \E i \in 1..Len(lines) : lines[i].t = "assistant" /\ lines[i].provider = provider

\* The lines of a file written as kept.join('\n') + '\n'
WrittenLines(kept) == IF kept = <<>> THEN <<BlankLine>> ELSE kept

RemoveAt(seq, i) == [j \in 1..(Len(seq) - 1) |-> IF j < i THEN seq[j] ELSE seq[j + 1]]

\* new CostComponent(tui, theme, onClose, daysBack): the tab of daysBack or
\* the first one, and the first load() under way.
InitCost ==
    /\ mode = "cost"
    /\ IdleReorg
    /\ IdleUrg
    /\ IdleSel
    /\ IdlePanel
    /\ IdleOther
    /\ IdleFmt
    /\ IdleLoader
    /\ IdleKilo
    /\ IdleStat
    /\ shownFrom = <<>>
    /\ sessions \in UNION {[1..n -> SessionFiles] : n \in 1..MaxFiles}
    /\ original = sessions
    /\ costs = <<>>
    /\ costLoading = TRUE
    /\ costCursor = 0
    /\ currentTab \in {0, 1}
    /\ expanded = ""
    /\ scans = <<Tabs[currentTab + 1]>>
    /\ deletes = <<>>
    /\ deleted = <<>>
    /\ costClosed = FALSE

CostFrame == <<mode, reorgVars, urgVars, selVars, panelVars, otherVars, fmtVars, loaderVars, kiloVars,
               statVars, shownFrom>>

\* load(): the scan it awaited resolves; its result becomes the list.
LoadResolves ==
    /\ mode = "cost"
    /\ \E i \in 1..Len(scans) :
          /\ costs' = scanSessionLogs(sessions, scans[i])
          /\ scans' = RemoveAt(scans, i)
    /\ costLoading' = FALSE
    /\ UNCHANGED <<CostFrame, sessions, original, costCursor, currentTab, expanded, deletes, deleted,
                   costClosed>>

\* handleInput(escape)
KeyEscape ==
    /\ mode = "cost" /\ ~costClosed
    /\ costClosed' = TRUE
    /\ UNCHANGED <<CostFrame, sessions, original, costs, costLoading, costCursor, currentTab, expanded,
                   scans, deletes, deleted>>

\* The tab changes and load() is called; days is read before the await.
ChangeTab(tab) ==
    /\ mode = "cost" /\ ~costClosed /\ Len(scans) < MaxInFlight
    /\ currentTab' = tab
    /\ scans' = Append(scans, Tabs[tab + 1])
    /\ UNCHANGED <<CostFrame, sessions, original, costs, costLoading, costCursor, expanded, deletes,
                   deleted, costClosed>>

\* handleInput(left)
KeyLeft == ChangeTab((currentTab - 1 + Len(Tabs)) % Len(Tabs))

\* handleInput(right)
KeyRight == ChangeTab((currentTab + 1) % Len(Tabs))

MoveCursor(to) ==
    /\ mode = "cost" /\ ~costClosed /\ Len(costs) > 0
    /\ costCursor' = to
    /\ UNCHANGED <<CostFrame, sessions, original, costs, costLoading, currentTab, expanded, scans,
                   deletes, deleted, costClosed>>

\* handleInput(up)
KeyUp == MoveCursor((costCursor - 1 + Len(costs)) % Len(costs))

\* handleInput(down)
KeyDown == MoveCursor((costCursor + 1) % Len(costs))

\* handleInput(enter): pc = this.costs[this.cursor]; pc.provider throws when
\* there is no such row.
KeyEnter ==
    /\ mode = "cost" /\ ~costClosed /\ Len(costs) > 0
    /\ IF costCursor < Len(costs)
       THEN LET pc == costs[costCursor + 1]
            IN  expanded' = IF expanded = pc.provider THEN "" ELSE pc.provider
       ELSE expanded' = expanded
    /\ UNCHANGED <<CostFrame, sessions, original, costs, costLoading, costCursor, currentTab, scans,
                   deletes, deleted, costClosed>>

\* handleInput(backspace): the row is spliced out, the cursor pulled back
\* into the list, and deleteProviderFromSessions(pc.provider) started and
\* not awaited; without a row under the cursor pc.provider throws after the
\* cursor has been pulled back.
KeyBackspace ==
    /\ mode = "cost" /\ ~costClosed /\ Len(costs) > 0 /\ ~costLoading
    /\ Len(deleted) < MaxDeletes
    /\ LET inRange == costCursor < Len(costs)
           spliced == IF inRange THEN RemoveAt(costs, costCursor + 1) ELSE costs
       IN  /\ costs' = spliced
           /\ costCursor' = IF costCursor >= Len(spliced)
                            THEN (IF Len(spliced) > 0 THEN Len(spliced) - 1 ELSE 0)
                            ELSE costCursor
           /\ IF inRange
              THEN LET provider == costs[costCursor + 1].provider
                   IN  /\ deletes' = Append(deletes, [provider |-> provider, file |-> 1,
                                                      pc |-> "read", kept |-> <<>>])
                       /\ deleted' = Append(deleted, provider)
              ELSE UNCHANGED <<deletes, deleted>>
    /\ UNCHANGED <<CostFrame, sessions, original, costLoading, currentTab, expanded, scans, costClosed>>

\* The call goes on to its next file, or returns after the last one.
NextFile(i) ==
    IF deletes[i].file < Len(sessions)
    THEN [deletes EXCEPT ![i] = [@ EXCEPT !.file = @ + 1, !.pc = "read", !.kept = <<>>]]
    ELSE RemoveAt(deletes, i)

\* deleteProviderFromSessions: one file has been read to its end.
DeleteReads ==
    /\ mode = "cost"
    /\ \E i \in 1..Len(deletes) :
          /\ deletes[i].pc = "read"
          /\ LET lines == sessions[deletes[i].file]
             IN  deletes' = IF Modified(lines, deletes[i].provider)
                            THEN [deletes EXCEPT ![i] =
                                    [@ EXCEPT !.pc = "write",
                                              !.kept = KeptLines(lines, deletes[i].provider)]]
                            ELSE NextFile(i)
    /\ UNCHANGED <<CostFrame, sessions, original, costs, costLoading, costCursor, currentTab, expanded,
                   scans, deleted, costClosed>>

\* deleteProviderFromSessions: the kept lines have been written to the file.
DeleteWrites ==
    /\ mode = "cost"
    /\ \E i \in 1..Len(deletes) :
          /\ deletes[i].pc = "write"
          /\ sessions' = [sessions EXCEPT ![deletes[i].file] = WrittenLines(deletes[i].kept)]
          /\ deletes' = NextFile(i)
    /\ UNCHANGED <<CostFrame, original, costs, costLoading, costCursor, currentTab, expanded, scans,
                   deleted, costClosed>>

NextCost ==
    \/ LoadResolves
    \/ KeyEscape
    \/ KeyLeft
    \/ KeyRight
    \/ KeyUp
    \/ KeyDown
    \/ KeyEnter
    \/ KeyBackspace
    \/ DeleteReads
    \/ DeleteWrites

SpecCost == InitCost /\ [][NextCost]_vars

(***************************************************************************)
(* Properties of the cost panel.                                           *)
(***************************************************************************)
\* C24: whenever the cost list is not empty the cursor is the index of one
\* of its rows, 0 <= cursor < costs.length, so that enter and backspace find
\* a row under it.
CostCursorInList ==
    (mode = "cost" /\ Len(costs) > 0) => (0 <= costCursor /\ costCursor < Len(costs))

\* The assistant messages of the providers backspace was pressed on.
OfDeleted(l) == l.t = "assistant" /\ \E i \in 1..Len(deleted) : deleted[i] = l.provider

RECURSIVE IsSubseq(_, _)
\* The lines of a are in b, in the order they have in a.
IsSubseq(a, b) ==
    IF a = <<>> THEN TRUE
    ELSE IF b = <<>> THEN FALSE
    ELSE IF Head(a) = Head(b) THEN IsSubseq(Tail(a), Tail(b))
    ELSE IsSubseq(a, Tail(b))

\* C25: when backspace has been pressed on two providers and both
\* deleteProviderFromSessions calls have returned, no file holds an
\* assistant message of either, and every other line of every file is still
\* there, in its original order.
BothProvidersDeleted ==
    (mode = "cost" /\ Len(deleted) = 2 /\ deletes = <<>>) =>
        \A f \in 1..Len(sessions) :
            /\ \A i \in 1..Len(sessions[f]) : ~OfDeleted(sessions[f][i])
            /\ IsSubseq(SelectSeq(original[f], LAMBDA l : ~OfDeleted(l)), sessions[f])

\* C26: when no load is under way (and nothing has been deleted), the list
\* is the scan result for the days of the selected tab.
ListIsOfCurrentTab ==
    (mode = "cost" /\ ~costLoading /\ scans = <<>> /\ deleted = <<>>) =>
        costs = scanSessionLogs(sessions, Tabs[currentTab + 1])

(***************************************************************************)
(* The "(recommended)" marker of the two select commands.                  *)
(***************************************************************************)
\* C27: when the list is shown and at least one entry has a usage snapshot
\* that is not null, exactly one item of the list carries "(recommended)",
\* also when entries with an account uuid seen before were left out.  The
\* fetches are taken to have settled in the order of the store.
ExactlyOneRecommended ==
    (/\ Listed
     /\ quotaMap = InStoreOrder(quotaMap, hAuth)
     /\ \E i \in 1..Len(quotaMap) : ~quotaMap[i].v.isNull) =>
        Cardinality({i \in 1..Len(items) : items[i].isBest}) = 1

(***************************************************************************)
(* loginKilocode (codex-select.ts, the Kilo provider): the device          *)
(* authorization login.  One step per await; the caller's abort signal     *)
(* can be set between any two steps.  Time is Date.now() in milliseconds.  *)
(***************************************************************************)
POLL_INTERVAL_MS == 3000

\* initiateData.expiresIn, in seconds, as the server may answer
ExpiresIns == {4, 8}

\* how long a fetch may take, in milliseconds
FetchTimes == {0, 2000}

\* the HTTP status of the answer to the initiating request
InitiateStatuses == {200, 429, 500}

\* the HTTP status of the answer to a poll
PollStatuses == {200, 202, 403, 410, 500}

\* pollData: its status and whether it has a token
PollBodies ==
    [status : {"approved", "pending", "denied", "expired"}, token : BOOLEAN]

Cancelled == "Login cancelled"

Denied == "Authorization was denied"

Expired == "Authorization code expired. Please try again."

TimedOut == "Authentication timed out. Please try again."

InitKilo ==
    /\ mode = "kilo"
    /\ IdleReorg /\ IdleUrg /\ IdleSel /\ IdleOther /\ IdlePanel /\ IdleFmt
    /\ IdleLoader /\ IdleCost /\ IdleStat
    /\ shownFrom = <<>>
    /\ kPc = "initiate"
    /\ kNow = 0
    /\ kDeadline = 0
    /\ kAborted = FALSE
    /\ kEnd = ""

KiloFrame ==
    <<mode, reorgVars, urgVars, selVars, panelVars, otherVars, fmtVars, loaderVars, costVars,
      statVars, shownFrom>>

\* the login ends: it returns the credentials or throws an error
KiloEnds(how) ==
    /\ kPc' = "done"
    /\ kEnd' = how

\* the initiating request is answered; the deadline is set
Initiated ==
    /\ mode = "kilo"
    /\ kPc = "initiate"
    /\ \E status \in InitiateStatuses, expiresIn \in ExpiresIns, took \in FetchTimes :
        /\ kNow' = kNow + took
        /\ IF status # 200
              THEN /\ KiloEnds(IF status = 429
                                  THEN "Too many pending authorization requests. Please try again later."
                                  ELSE "Failed to initiate device authorization")
                   /\ UNCHANGED kDeadline
              ELSE /\ kPc' = "loop"
                   /\ kDeadline' = kNow' + expiresIn * 1000
                   /\ UNCHANGED kEnd
    /\ UNCHANGED <<kAborted, KiloFrame>>

\* the head of the loop: the deadline, then the abort signal
LoopHead ==
    /\ mode = "kilo"
    /\ kPc = "loop"
    /\ IF kNow < kDeadline
          THEN IF kAborted
                  THEN KiloEnds(Cancelled)
                  ELSE kPc' = "sleep" /\ UNCHANGED kEnd
          ELSE KiloEnds(TimedOut)
    /\ UNCHANGED <<kNow, kDeadline, kAborted, KiloFrame>>

\* the timer of POLL_INTERVAL_MS fires, the poll is sent
Slept ==
    /\ mode = "kilo"
    /\ kPc = "sleep"
    /\ kNow' = kNow + POLL_INTERVAL_MS
    /\ kPc' = "poll"
    /\ UNCHANGED <<kDeadline, kAborted, kEnd, KiloFrame>>

\* the poll is answered
PollAnswered ==
    /\ mode = "kilo"
    /\ kPc = "poll"
    /\ \E status \in PollStatuses, took \in FetchTimes :
        /\ kNow' = kNow + took
        /\ CASE status = 202 -> kPc' = "loop" /\ UNCHANGED kEnd
             [] status = 403 -> KiloEnds(Denied)
             [] status = 410 -> KiloEnds(Expired)
             [] status = 200 -> kPc' = "json" /\ UNCHANGED kEnd
             [] OTHER -> KiloEnds("Failed to poll device authorization")
    /\ UNCHANGED <<kDeadline, kAborted, KiloFrame>>

\* the body of the poll's answer is parsed
BodyParsed ==
    /\ mode = "kilo"
    /\ kPc = "json"
    /\ \E pollData \in PollBodies :
        CASE pollData.status = "approved" /\ pollData.token -> KiloEnds("credentials")
          [] pollData.status = "denied" -> KiloEnds(Denied)
          [] pollData.status = "expired" -> KiloEnds(Expired)
          [] OTHER -> kPc' = "loop" /\ UNCHANGED kEnd
    /\ UNCHANGED <<kNow, kDeadline, kAborted, KiloFrame>>

\* the caller aborts callbacks.signal while the login runs
Abort ==
    /\ mode = "kilo"
    /\ kPc # "done"
    /\ ~kAborted
    /\ kAborted' = TRUE
    /\ UNCHANGED <<kPc, kNow, kDeadline, kEnd, KiloFrame>>

NextKilo ==
    \/ Initiated
    \/ LoopHead
    \/ Slept
    \/ PollAnswered
    \/ BodyParsed
    \/ Abort

SpecKilo == InitKilo /\ [][NextKilo]_vars

\* C28: a login whose signal was aborted while it ran does not end by
\* returning credentials.
NoCredentialsAfterAbort ==
    (mode = "kilo" /\ kPc = "done" /\ kAborted) => kEnd # "credentials"

(***************************************************************************)
(* The statistics hook of tps.ts; the hook at the end of usage.ts has the  *)
(* same handlers, statement for statement, up to the text it notifies.     *)
(* Every event reads Date.now(); agent_end receives its own ctx and the    *)
(* messages of the run, of which only the summed output tokens decide.     *)
(***************************************************************************)
MaxClock == 6

\* agentStartMs = null
NoStart == 0 - 1

\* by how much Date.now() has advanced when an event arrives
Advances == {0, 1}

\* the sum of message.usage.output over the assistant messages of the run
Outputs == {0, 5}

InitStats ==
    /\ mode = "stats"
    /\ IdleReorg /\ IdleUrg /\ IdleSel /\ IdleOther /\ IdlePanel /\ IdleFmt
    /\ IdleLoader /\ IdleCost /\ IdleKilo
    /\ shownFrom = <<>>
    /\ agentStartMs = NoStart
    /\ sNow = 0
    /\ startedSinceEnd = FALSE
    /\ notified = 0
    /\ notifications = 0

StatFrame ==
    <<mode, reorgVars, urgVars, selVars, panelVars, otherVars, fmtVars, loaderVars, costVars,
      kiloVars, shownFrom>>

\* pi.on("agent_start")
AgentStart ==
    /\ mode = "stats"
    /\ \E d \in Advances :
        /\ sNow + d <= MaxClock
        /\ sNow' = sNow + d
        /\ agentStartMs' = sNow'
    /\ startedSinceEnd' = TRUE
    /\ notified' = 0
    /\ UNCHANGED <<notifications, StatFrame>>

\* pi.on("agent_end"), up to ctx.ui.notify
AgentEnd ==
    /\ mode = "stats"
    /\ \E d \in Advances, hasUI \in BOOLEAN, output \in Outputs :
        /\ sNow + d <= MaxClock
        /\ sNow' = sNow + d
        /\ IF ~hasUI
              THEN UNCHANGED <<agentStartMs, notified, notifications>>
              ELSE IF agentStartMs = NoStart
                      THEN UNCHANGED <<agentStartMs, notified, notifications>>
                      ELSE LET elapsedMs == sNow' - agentStartMs IN
                           /\ agentStartMs' = NoStart
                           /\ IF elapsedMs <= 0 \/ output <= 0
                                 THEN UNCHANGED <<notified, notifications>>
                                 ELSE /\ notified' = notified + 1
                                      /\ notifications' = notifications + 1
    /\ startedSinceEnd' = FALSE
    /\ UNCHANGED StatFrame

NextStats ==
    \/ AgentStart
    \/ AgentEnd

SpecStats == InitStats /\ [][NextStats]_vars

\* C29: every agent_end leaves the start time cleared, notifies at most once
\* for an agent_start, and notifies nothing when no agent_start has come
\* since the agent_end before it.
StatsOncePerStart ==
    [][AgentEnd =>
        /\ agentStartMs' = NoStart
        /\ notified' <= 1
        /\ ~startedSinceEnd => notifications' = notifications]_vars

====
